---------------------------- MODULE Spec2Model ----------------------------
(***************************************************************************)
(* A model of the Obsidian note minimap: the plugin (src/src/main.ts), the *)
(* renderer bound to one workspace leaf (MinimapRenderer,                  *)
(* src/unnamed/part_000) and the settings record (src/unnamed/part_001).   *)
(*                                                                         *)
(* Every handler of the plugin is one action.  A handler is a sequence of  *)
(* calls on renderers, so the renderer's methods are operators from a      *)
(* "world" record (canvases, listeners, scroll positions, the drag flag)   *)
(* to the world after the call, and an action threads the world through    *)
(* the calls its handler makes.                                            *)
(*                                                                         *)
(* JavaScript numbers are modelled as exact rationals extended with        *)
(* +Infinity, -Infinity and NaN (a division by a zero scroll height gives  *)
(* them); the rounding of IEEE doubles is not modelled.  A line of text is *)
(* a sequence of one-character strings.                                    *)
(***************************************************************************)
EXTENDS Integers, Sequences, FiniteSets, TLC

(***************************************************************************)
(* Numbers: [n, d] with d > 0 in lowest terms is n/d; d = 0 is +Infinity   *)
(* (n = 1), -Infinity (n = -1) or NaN (n = 0).                             *)
(***************************************************************************)
Abs(i) == IF i < 0 THEN -i ELSE i

Sign(i) == IF i < 0 THEN -1 ELSE IF i > 0 THEN 1 ELSE 0

RECURSIVE Gcd(_, _)
Gcd(a, b) == IF b = 0 THEN a ELSE Gcd(b, a % b)

Norm(n, d) ==
    IF d = 0 THEN [n |-> Sign(n), d |-> 0]
    ELSE LET g == Gcd(Abs(n), Abs(d))
         IN  [n |-> (Sign(d) * n) \div g, d |-> Abs(d) \div g]

R(i) == [n |-> i, d |-> 1]

NaN == [n |-> 0, d |-> 0]

IsNaN(a) == a.d = 0 /\ a.n = 0

IsFinite(a) == a.d > 0

RMul(a, b) == Norm(a.n * b.n, a.d * b.d)

RDiv(a, b) == Norm(a.n * b.d, a.d * b.n)

RAdd(a, b) ==
    IF a.d = 0 /\ b.d = 0 THEN (IF a.n = b.n THEN a ELSE NaN)
    ELSE Norm(a.n * b.d + b.n * a.d, a.d * b.d)

RNeg(a) == [n |-> -a.n, d |-> a.d]

RSub(a, b) == RAdd(a, RNeg(b))

\* a < b as JavaScript compares: false when either side is NaN
RLt(a, b) ==
    /\ ~IsNaN(a)
    /\ ~IsNaN(b)
    /\ IF a.d = 0 \/ b.d = 0
         THEN (IF a.d = 0 THEN a.n ELSE 0) < (IF b.d = 0 THEN b.n ELSE 0)
         ELSE a.n * b.d < b.n * a.d

RLe(a, b) == ~IsNaN(a) /\ ~IsNaN(b) /\ ~RLt(b, a)

\* Math.max, Math.min: NaN when either argument is NaN
MathMax(a, b) == IF IsNaN(a) \/ IsNaN(b) THEN NaN ELSE IF RLt(a, b) THEN b ELSE a

MathMin(a, b) == IF IsNaN(a) \/ IsNaN(b) THEN NaN ELSE IF RLt(b, a) THEN b ELSE a

\* Math.floor
MathFloor(a) == IF a.d = 0 THEN a ELSE R(a.n \div a.d)

(***************************************************************************)
(* Text: String.prototype methods on sequences of characters.              *)
(***************************************************************************)
IsSpace(ch) == ch = " "

\* the grave accent U+0060, which a TLA+ string cannot hold
Backtick == "BACKTICK"

\* the index of the first character at or after i that is not white space,
\* Len(s) + 1 when there is none
RECURSIVE FirstNonSpace(_, _)
FirstNonSpace(s, i) ==
    IF i > Len(s) THEN Len(s) + 1
    ELSE IF ~IsSpace(s[i]) THEN i
    ELSE FirstNonSpace(s, i + 1)

RECURSIVE LastNonSpace(_, _)
LastNonSpace(s, i) ==
    IF i < 1 THEN 0
    ELSE IF ~IsSpace(s[i]) THEN i
    ELSE LastNonSpace(s, i - 1)

\* content.trim()
Trim(s) ==
    LET a == FirstNonSpace(s, 1)
        b == LastNonSpace(s, Len(s))
    IN  IF a > b THEN <<>> ELSE SubSeq(s, a, b)

\* content.startsWith(p)
StartsWith(s, p) == Len(s) >= Len(p) /\ SubSeq(s, 1, Len(p)) = p

\* lower.endsWith(p)
EndsWith(s, p) == Len(s) >= Len(p) /\ SubSeq(s, Len(s) - Len(p) + 1, Len(s)) = p

\* the first index k >= i with p at s[k ..], 0 when there is none
RECURSIVE IndexOf(_, _, _)
IndexOf(s, p, i) ==
    IF i + Len(p) - 1 > Len(s) THEN 0
    ELSE IF SubSeq(s, i, i + Len(p) - 1) = p THEN i
    ELSE IndexOf(s, p, i + 1)

\* the number of leading "#": the length of the match of /^#+/
RECURSIVE LeadingHashes(_, _)
LeadingHashes(s, i) ==
    IF i <= Len(s) /\ s[i] = "#" THEN 1 + LeadingHashes(s, i + 1) ELSE 0

ToLower(ch) ==
    CASE ch = "P" -> "p"
      [] ch = "N" -> "n"
      [] ch = "G" -> "g"
      [] ch = "T" -> "t"
      [] OTHER -> ch

ToLowerCase(s) == [i \in 1..Len(s) |-> ToLower(s[i])]


Dec(tenths) == Norm(tenths, 10)

(***************************************************************************)
(* Settings (src/unnamed/part_001).                                        *)
(***************************************************************************)
DEFAULT_SETTINGS ==
    [ disabledFiles    |-> <<>>,
      width            |-> R(150),
      lineHeight       |-> R(4),
      minimapOpacity   |-> Dec(5),
      showMinimap      |-> TRUE,
      showHeaders      |-> TRUE,
      showLists        |-> TRUE,
      showCodeBlocks   |-> TRUE,
      headerColor      |-> "#00BADA",
      textColor        |-> "#808080",
      codeBlockColor   |-> "#0000FF",
      indicatorColor   |-> "#4444FF",
      indicatorOpacity |-> Dec(2),
      header1Color     |-> "#FF0000",
      header2Color     |-> "#00FF00",
      header3Color     |-> "#0000FF",
      header4Color     |-> "#FFFF00",
      header5Color     |-> "#FF00FF",
      header6Color     |-> "#00FFFF",
      imageColor       |-> "#A0A0A0",
      tableColor       |-> "#808080",
      minElementWidth  |-> R(4),
      minElementHeight |-> R(1),
      embedColor       |-> "#6A9955",
      density          |-> R(1),
      minimapScaling   |-> Dec(5),
      lineSpacing      |-> Dec(12),
      textDensity      |-> Dec(15) ]

IMAGE_EXTENSIONS ==
    { <<".", "p", "n", "g">>, <<".", "j", "p", "g">>, <<".", "j", "p", "e", "g">>,
      <<".", "g", "i", "f">>, <<".", "b", "m", "p">>, <<".", "s", "v", "g">>,
      <<".", "w", "e", "b", "p">> }

\* MinimapRenderer.isImagePath
isImagePath(path) ==
    LET lower == ToLowerCase(path)
    IN  \E ext \in IMAGE_EXTENSIONS : EndsWith(lower, ext)

\* isMinimapEnabledForFile that asks for settings.showMinimap only
isMinimapEnabledForFile_ShowOnly(s, filePath) == s.showMinimap

\* MinimapPlugin.isMinimapEnabledForFile
isMinimapEnabledForFile(s, filePath) ==
    s.showMinimap /\ ~(\E i \in 1..Len(s.disabledFiles) : s.disabledFiles[i] = filePath)

(***************************************************************************)
(* The paint of one line (the body of processLines' loop).                 *)
(***************************************************************************)
\* width of measureText(text) in the context's default font: the host's text
\* measurement, taken as a fixed advance per character
MeasureCharWidth == 5

measureTextWidth(text) == R(MeasureCharWidth * Len(text))

\* content.match(/!\[\[(.*?)\]\]/): the captured path, or "none"
WikiMatch(content) ==
    LET i == IndexOf(content, <<"!", "[", "[">>, 1)
        k == IF i = 0 THEN 0 ELSE IndexOf(content, <<"]", "]">>, i + 3)
    IN  IF i = 0 \/ k = 0 THEN "none" ELSE SubSeq(content, i + 3, k - 1)

\* content.split("|").filter((c) => c.trim()).length
RECURSIVE CellCount(_, _, _)
CellCount(content, i, segHasText) ==
    IF i > Len(content) THEN (IF segHasText THEN 1 ELSE 0)
    ELSE IF content[i] = "|"
      THEN (IF segHasText THEN 1 ELSE 0) + CellCount(content, i + 1, FALSE)
      ELSE CellCount(content, i + 1, segHasText \/ ~IsSpace(content[i]))

\* HeaderColor with one colour for every level
HeaderColor_Single(s, headerLevel) == s.headerColor

\* (settings as any)["header" + headerLevel + "Color"] || settings.headerColor
HeaderColor(s, headerLevel) ==
    LET own == CASE headerLevel = 1 -> s.header1Color
                 [] headerLevel = 2 -> s.header2Color
                 [] headerLevel = 3 -> s.header3Color
                 [] headerLevel = 4 -> s.header4Color
                 [] headerLevel = 5 -> s.header5Color
                 [] headerLevel = 6 -> s.header6Color
                 [] OTHER -> ""
    IN  IF own = "" THEN s.headerColor ELSE own

\* one call of fillRect or strokeRect, as the context's state at the call has it
Op(kind, cls, lineNo, level, color, x, y, w, h, ctx) ==
    [ kind |-> kind, cls |-> cls, line |-> lineNo, level |-> level, color |-> color,
      x |-> x, y |-> y, w |-> w, h |-> h,
      alpha |-> ctx.alpha, sx |-> ctx.sx, lineWidth |-> ctx.lineWidth ]

\* what fillRect and strokeRect calls draw on the bitmap: a call with an argument
\* that is not finite draws nothing
Drawn(ops) ==
    SelectSeq(ops, LAMBDA op : /\ IsFinite(op.x) /\ IsFinite(op.y)
                               /\ IsFinite(op.w) /\ IsFinite(op.h))

\* HeaderGate that does not consult settings.showHeaders
HeaderGate_IgnoresFlag(s, content) == StartsWith(content, <<"#">>)

\* true when the header branch is taken for the line
HeaderGate(s, content) == StartsWith(content, <<"#">>) /\ s.showHeaders

\* true when the code fence branch is taken for the line
FenceGate(s, content) == StartsWith(Trim(content), <<Backtick, Backtick, Backtick>>) /\ s.showCodeBlocks

\* the branch chain of processLines, in the order of the code
LineOps(s, lineNo, content, y, height, displayWidth, ctx) ==
    LET wiki == WikiMatch(content)
    IN  IF wiki # "none" THEN
          IF isImagePath(wiki)
            THEN << Op("fill", "image-embed", lineNo, 0, s.imageColor,
                       R(8), y, R(displayWidth - 16), RMul(height, Dec(15)), ctx) >>
            ELSE << Op("fill", "generic-embed", lineNo, 0, s.embedColor,
                       R(4), y, R(displayWidth - 8), RMul(height, R(2)), ctx),
                    Op("stroke", "generic-embed", lineNo, 0, "#000000",
                       R(4), y, R(displayWidth - 8), RMul(height, R(2)), ctx) >>
        ELSE IF HeaderGate(s, content) THEN
          LET headerLevel == LeadingHashes(content, 1)
              afterHashes == SubSeq(content, headerLevel + 1, Len(content))
              headerText  == SubSeq(afterHashes, FirstNonSpace(afterHashes, 1),
                                    Len(afterHashes))
              headerWidth == MathMin(RAdd(measureTextWidth(headerText), R(16)),
                                     R(displayWidth - 8))
              headerHeight == MathMax(RMul(height, Dec(12)), R(3))
          IN  << Op("fill", "header", lineNo, headerLevel, HeaderColor(s, headerLevel),
                    R(4), y, headerWidth, headerHeight, ctx) >>
        ELSE IF FenceGate(s, content) THEN
          << Op("fill", "code-fence", lineNo, 0, s.codeBlockColor,
                R(4), y, R(displayWidth - 8), MathMax(Dec(15), height), ctx) >>
        ELSE IF IndexOf(content, <<"|">>, 1) # 0 THEN
          LET cells == CellCount(content, 1, FALSE)
              tableWidth == MathMin(R(cells * 20), R(displayWidth - 16))
          IN  << Op("fill", "table-row", lineNo, 0, s.tableColor,
                    R(8), y, tableWidth, MathMax(R(1), height), ctx) >>
        ELSE IF Len(Trim(content)) > 0 THEN
          LET indent == FirstNonSpace(content, 1) - 1
              width == MathMin(RMul(R(Len(Trim(content))), s.textDensity),
                               RSub(R(displayWidth - 8), RMul(R(indent), s.textDensity)))
              x == MathFloor(RAdd(R(4), RMul(R(indent), s.textDensity)))
          IN  << Op("fill", "plain-text", lineNo, 0, s.textColor,
                    x, y, width, MathMax(R(1), RMul(height, Dec(8))), ctx) >>
        ELSE <<>>

(***************************************************************************)
(* The host: the window, and what a leaf's view supplies.                  *)
(***************************************************************************)
\* window.innerHeight
WindowInnerHeight == 72

\* window.devicePixelRatio
DevicePixelRatio == 2

\* the height of every line block the editor reports (lineBlockAt(...).height)
HostLineHeight == 20

Leaves == {"L1", "L2"}

Paths == {"notes/a.md", "notes/b.md"}

\* view.file of a view that shows no file
NoFile == "null"

\* What the view supplies, as the first thing it lacks in the order the renderer
\* asks for it: a MarkdownView, its .cm-scroller, the canvas' 2d context, editor.cm
Caps == <<"notMarkdown", "noScroller", "noCtx", "noCm", "full">>

CapRank(cap) == CHOOSE i \in 1..Len(Caps) : Caps[i] = cap

isMarkdownView(v) == CapRank(v.cap) > 1

hasScroller(v) == CapRank(v.cap) > 2

hasContext(v) == CapRank(v.cap) > 3

hasCm(v) == CapRank(v.cap) > 4

\* getComputedStyle(document.body).getPropertyValue("--background-primary")
ThemeBackground == "--background-primary"

(***************************************************************************)
(* The canvas of a renderer.                                               *)
(***************************************************************************)
\* the state of a 2d context after canvas.width or canvas.height is assigned
DefaultCtx == [sx |-> 1, alpha |-> R(1), lineWidth |-> 1]

NoCanvas ==
    [ exists |-> FALSE, display |-> "", opacityVar |-> NaN,
      cssWidth |-> R(0), cssHeight |-> R(0), width |-> 0, height |-> 0,
      ctx |-> DefaultCtx, raster |-> <<>> ]

\* document.createElement("canvas") with the cssText of attach(): the assignment of
\* cssText drops the --minimap-opacity property set just before it
NewCanvas(s) ==
    [ exists |-> TRUE, display |-> "", opacityVar |-> NaN,
      cssWidth |-> s.width, cssHeight |-> R(WindowInnerHeight - 50),
      width |-> 300, height |-> 150,
      ctx |-> DefaultCtx, raster |-> <<>> ]

\* Resize that assigns the bitmap size only when it changes, so that a repaint at
\* the same size keeps the context's state
Resize_OnlyWhenChanged(cv, displayWidth, displayHeight) ==
    IF /\ cv.width = displayWidth * DevicePixelRatio
       /\ cv.height = displayHeight * DevicePixelRatio
      THEN [ cv EXCEPT !.cssWidth = R(displayWidth),
                       !.cssHeight = R(displayHeight),
                       !.raster = <<>> ]
      ELSE [ cv EXCEPT !.width = displayWidth * DevicePixelRatio,
                       !.height = displayHeight * DevicePixelRatio,
                       !.cssWidth = R(displayWidth),
                       !.cssHeight = R(displayHeight),
                       !.ctx = DefaultCtx,
                       !.raster = <<>> ]

\* canvas.width = ..., canvas.height = ..., style.width, style.height: assigning
\* the bitmap size clears the bitmap and resets the context's state
Resize(cv, displayWidth, displayHeight) ==
    [ cv EXCEPT !.width = displayWidth * DevicePixelRatio,
                !.height = displayHeight * DevicePixelRatio,
                !.cssWidth = R(displayWidth),
                !.cssHeight = R(displayHeight),
                !.ctx = DefaultCtx,
                !.raster = <<>> ]

\* geometry of one update(): g.s settings, g.doc lines, g.scale, g.displayWidth,
\* g.displayHeight, g.effectiveLineHeight, g.ctx
RECURSIVE processLines(_, _, _)
processLines(g, lineNo, end) ==
    IF lineNo > end \/ lineNo > Len(g.doc) THEN <<>>
    ELSE LET top    == R((lineNo - 1) * HostLineHeight)
             y      == MathFloor(RMul(top, g.scale))
             height == MathMax(g.effectiveLineHeight,
                               MathFloor(RMul(R(HostLineHeight), g.scale)))
             culled == \/ RLt(y, RNeg(height))
                       \/ RLt(RAdd(R(g.displayHeight), height), y)
             ops    == IF culled THEN <<>>
                       ELSE LineOps(g.s, lineNo, g.doc[lineNo], y, height,
                                    g.displayWidth, g.ctx)
         IN  ops \o processLines(g, lineNo + 1, end)

batchSize == 50

\* for (let i = 1; i <= totalLines; i += batchSize) processLines(i, i + batchSize - 1)
RECURSIVE Batches(_, _)
Batches(g, i) ==
    IF i > Len(g.doc) THEN <<>>
    ELSE processLines(g, i, i + batchSize - 1) \o Batches(g, i + batchSize)

\* IndicatorRect whose height is the viewport's height in document pixels
IndicatorRect_UnscaledHeight(scrollTop, viewportHeight, scale) ==
    [ y |-> RMul(scrollTop, scale), h |-> R(viewportHeight) ]

\* the viewport indicator's rectangle: indicatorY and indicatorHeight
IndicatorRect(scrollTop, viewportHeight, scale) ==
    [ y |-> RMul(scrollTop, scale), h |-> RMul(R(viewportHeight), scale) ]

\* Indicator without the test of settings.indicatorOpacity
Indicator_IgnoresOpacity(s, ctx, scrollTop, viewportHeight, scale, displayWidth) ==
    LET rect == IndicatorRect(scrollTop, viewportHeight, scale)
    IN  << Op("fill", "indicator", 0, 0, s.indicatorColor, R(0), rect.y,
              R(displayWidth), rect.h, [ctx EXCEPT !.alpha = s.indicatorOpacity]),
           Op("stroke", "indicator", 0, 0, s.indicatorColor, R(0), rect.y,
              R(displayWidth), rect.h, [ctx EXCEPT !.alpha = Dec(8), !.lineWidth = 2]) >>

\* the viewport indicator: the ops painted, with the alpha each is painted at
Indicator(s, ctx, scrollTop, viewportHeight, scale, displayWidth) ==
    LET indicatorHeight == IndicatorRect(scrollTop, viewportHeight, scale).h
        indicatorY      == IndicatorRect(scrollTop, viewportHeight, scale).y
    IN  IF RLt(R(0), s.indicatorOpacity)
          THEN << Op("fill", "indicator", 0, 0, s.indicatorColor, R(0), indicatorY,
                     R(displayWidth), indicatorHeight,
                     [ctx EXCEPT !.alpha = s.indicatorOpacity]),
                  Op("stroke", "indicator", 0, 0, s.indicatorColor, R(0), indicatorY,
                     R(displayWidth), indicatorHeight,
                     [ctx EXCEPT !.alpha = Dec(8), !.lineWidth = 2]) >>
          ELSE <<>>

\* the context after the indicator block
CtxAfterIndicator(s, ctx) ==
    IF RLt(R(0), s.indicatorOpacity)
      THEN [ctx EXCEPT !.alpha = R(1), !.lineWidth = 2]
      ELSE ctx

\* if (!this.host.settings.showMinimap): the surface is hidden and nothing painted
ShowGate(s) == s.showMinimap

\* Math.floor(settings.width * settings.minimapScaling)
displayWidthOf(s) == MathFloor(RMul(s.width, s.minimapScaling)).n

\* Math.floor((window.innerHeight - 32) * settings.minimapScaling)
displayHeightOf(s) == MathFloor(RMul(R(WindowInnerHeight - 32), s.minimapScaling)).n

\* scaleOf that takes a content height of 0 as 1
scaleOf_ZeroHeightAsOne(s, v) ==
    RDiv(R(displayHeightOf(s)), R(IF v.scrollHeight = 0 THEN 1 ELSE v.scrollHeight))

\* scale = displayHeight / editorElement.scrollHeight
scaleOf(s, v) == RDiv(R(displayHeightOf(s)), R(v.scrollHeight))

\* MinimapRenderer.update on canvas cv of a view v:
\* [cv: the canvas after, resized: whether the bitmap was resized, ops: the ops painted]
update(s, v, cv) ==
    IF ~cv.exists THEN [cv |-> cv, resized |-> FALSE, ops |-> <<>>]
    ELSE
      LET cv1 == [cv EXCEPT !.opacityVar = s.minimapOpacity]
      IN  IF ~isMarkdownView(v) \/ ~hasScroller(v) \/ ~hasContext(v)
            THEN [cv |-> cv1, resized |-> FALSE, ops |-> <<>>]
          ELSE IF ~ShowGate(s)
            THEN [cv |-> [cv1 EXCEPT !.display = "none"], resized |-> FALSE, ops |-> <<>>]
          ELSE
            LET displayWidth  == displayWidthOf(s)
                displayHeight == displayHeightOf(s)
                cv2  == Resize([cv1 EXCEPT !.display = "block"],
                               displayWidth, displayHeight)
                ctx  == [cv2.ctx EXCEPT !.sx = @ * DevicePixelRatio]
                bg   == << Op("fill", "background", 0, 0, ThemeBackground, R(0), R(0),
                              R(displayWidth), R(displayHeight), ctx) >>
                scale == scaleOf(s, v)
                baseLineHeight == MathMax(R(1), MathFloor(RMul(s.lineHeight, s.lineSpacing)))
                g == [ s |-> s, doc |-> v.doc, scale |-> scale,
                       displayWidth |-> displayWidth, displayHeight |-> displayHeight,
                       effectiveLineHeight |-> MathMax(R(1), RMul(baseLineHeight, scale)),
                       ctx |-> ctx ]
                lines == Batches(g, 1)
                ind   == Indicator(s, ctx, v.scrollTop, v.clientHeight, scale, displayWidth)
                ctx2  == IF hasCm(v) THEN CtxAfterIndicator(s, ctx) ELSE ctx
                painted(ops) == [ cv |-> [cv2 EXCEPT !.ctx = ctx2,
                                                     !.raster = @ \o Drawn(ops)],
                                  resized |-> TRUE, ops |-> ops ]
            IN  painted(IF hasCm(v) THEN bg \o lines \o ind ELSE bg)

(***************************************************************************)
(* State.                                                                  *)
(***************************************************************************)
VARIABLES
    loaded,        \* the plugin is loaded (between onload and onunload)
    settings,      \* MinimapPlugin.settings
    stored,        \* what loadData() gives: what saveData last wrote, or NoData
    pending,       \* the callbacks and awaits outstanding, in the order they were made:
                   \* "layoutReady" the onLayoutReady callback of onload, "refresh" an
                   \* await followed by refreshMinimaps(), "none" a saveSettings() whose
                   \* result is dropped
    open,          \* the leaves getLeavesOfType("markdown") returns
    activeLeaf,    \* workspace.activeLeaf, or NoLeaf
    view,          \* what each leaf's view supplies
    minimaps,      \* MinimapPlugin.minimaps: the leaves with a renderer, in insertion order
    cv,            \* MinimapRenderer.canvas of each leaf's renderer (NoCanvas: null)
    hooked,        \* the renderer's onEditorScroll is registered on the leaf's scroller
    staleScroll,   \* onEditorScroll listeners of renderers dropped while still registered
    pluginScroll,  \* the plugin's own scroll listeners on each leaf's scroller
    docListeners,  \* document-level mouseup / mouseleave listeners added by attach()
    isDragging,    \* MinimapPlugin.isDragging
    surfaces,      \* the canvas elements in each leaf's container
    overlay,       \* the context menus in document.body and their closeMenu listeners
    preload,       \* MinimapPlugin.minimapCache and the image loads in flight
    defaultFiles,  \* the array DEFAULT_SETTINGS.disabledFiles: its items now, and
                   \* whether settings.disabledFiles is that same array (shared)
    log            \* the last handler run: its name, its input and the calls it made

vars == << loaded, settings, stored, pending, open, activeLeaf, view, minimaps, cv,
           hooked, staleScroll, pluginScroll, docListeners, isDragging, surfaces,
           overlay, preload, defaultFiles, log >>

NoLeaf == "none"

\* no context menu in the document: menus the .minimap-context-menu elements in
\* document.body, live the closeMenu listeners on the document whose menu is one of
\* them, stale those whose menu has been removed
NoOverlay == [ menus |-> 0, live |-> 0, stale |-> 0 ]

\* loadData() of a plugin that never saved: null
NoData == [nodata |-> TRUE]

(***************************************************************************)
(* The renderer's methods, on the world a handler runs in:                 *)
(*   w.cv, w.view, w.hooked, w.staleScroll, w.pluginScroll, w.docListeners,*)
(*   w.isDragging, w.minimaps, w.surfaces, w.overlay, w.preload as the     *)
(*   variables of the same names,                                          *)
(*   w.canvasHeight, the rect.height scrollToMinimapPosition read (NaN when*)
(*   it did not run), and w.calls, the record of the calls made so far.    *)
(***************************************************************************)
World ==
    [ cv |-> cv, view |-> view, hooked |-> hooked, staleScroll |-> staleScroll,
      pluginScroll |-> pluginScroll, docListeners |-> docListeners,
      isDragging |-> isDragging, minimaps |-> minimaps, surfaces |-> surfaces,
      overlay |-> overlay, preload |-> preload, canvasHeight |-> NaN,
      calls |-> <<>> ]

\* one call of a renderer method, as the handler's record keeps it: the view it
\* saw, whether the renderer had a canvas before and has one after, the display of
\* the canvas after, whether the bitmap was resized, the number of ops painted and
\* the number of listeners the call registered
CallRec(fn, l, v, before, after, resized, ops) ==
    [ fn |-> fn, leaf |-> l, cap |-> v.cap, file |-> v.file,
      hadCanvas |-> before.exists, hasCanvas |-> after.exists,
      display |-> after.display, resized |-> resized, nOps |-> Len(ops),
      registered |-> IF fn = "attach" /\ after.exists /\ ~before.exists
                       THEN (IF CapRank(v.cap) > 2 THEN 6 ELSE 5)
                       ELSE 0 ]

InRegistry(w, l) == \E i \in 1..Len(w.minimaps) : w.minimaps[i] = l

\* MinimapRenderer.update
rUpdate(w, s, l) ==
    LET done(r) == [ w EXCEPT !.cv[l] = r.cv,
                              !.calls = Append(@, CallRec("update", l, w.view[l], w.cv[l],
                                                          r.cv, r.resized, r.ops)) ]
    IN  done(update(s, w.view[l], w.cv[l]))

\* MinimapRenderer.syncVisibility
syncVisibility(w, s, l) ==
    LET c    == w.cv[l]
        v    == w.view[l]
        file == IF isMarkdownView(v) THEN v.file ELSE NoFile
    IN  IF ~c.exists
          THEN [ w EXCEPT !.calls = Append(@, CallRec("syncVisibility", l, v, c, c,
                                                      FALSE, <<>>)) ]
        ELSE IF file = NoFile \/ ~isMinimapEnabledForFile(s, file)
          THEN LET c1 == [c EXCEPT !.display = "none"]
               IN  [ w EXCEPT !.cv[l] = c1,
                              !.calls = Append(@, CallRec("syncVisibility", l, v, c, c1,
                                                          FALSE, <<>>)) ]
        ELSE LET done(r) ==
                   [ w EXCEPT !.cv[l] = r.cv,
                              !.calls = Append(@, CallRec("syncVisibility", l, v, c, r.cv,
                                                          r.resized, r.ops)) ]
             IN  done(update(s, v, [c EXCEPT !.display = "block"]))

\* MinimapRenderer.attach
attach(w, s, l) ==
    LET c == w.cv[l]
        v == w.view[l]
    IN  IF ~isMarkdownView(v) \/ c.exists
          THEN [ w EXCEPT !.calls = Append(@, CallRec("attach", l, v, c, c, FALSE, <<>>)) ]
        ELSE LET done(r) ==
                   [ w EXCEPT !.cv[l] = r.cv,
                              !.hooked[l] = hasScroller(v),
                              !.docListeners = @ + 2,
                              !.surfaces[l] = @ + 1,
                              !.calls = Append(@, CallRec("attach", l, v, c, r.cv,
                                                          r.resized, r.ops)) ]
             IN  done(update(s, v, NewCanvas(s)))

\* MinimapRenderer.detach
detach(w, l) ==
    LET v == w.view[l]
    IN  [ w EXCEPT !.cv[l] = NoCanvas,
                   !.surfaces[l] = IF w.cv[l].exists THEN @ - 1 ELSE @,
                   !.hooked[l] = IF isMarkdownView(v) /\ hasScroller(v) THEN FALSE ELSE @,
                   !.calls = Append(@, CallRec("detach", l, v, w.cv[l], NoCanvas,
                                               FALSE, <<>>)) ]

\* newScrollTop without the lower clamp Math.max(0, ...)
newScrollTop_NoLowerClamp(clickY, canvasHeight, totalHeight, viewportHeight) ==
    LET scrollRatio == RDiv(clickY, canvasHeight)
    IN  MathMin(RSub(RMul(scrollRatio, R(totalHeight)), RDiv(R(viewportHeight), R(2))),
                R(totalHeight - viewportHeight))

\* the scroll offset scrollToMinimapPosition writes
newScrollTop(clickY, canvasHeight, totalHeight, viewportHeight) ==
    LET scrollRatio == RDiv(clickY, canvasHeight)
    IN  MathMax(R(0),
                MathMin(RSub(RMul(scrollRatio, R(totalHeight)),
                             RDiv(R(viewportHeight), R(2))),
                        R(totalHeight - viewportHeight)))

\* MinimapRenderer.scrollToMinimapPosition, clickY = e.clientY - rect.top
scrollToMinimapPosition(w, s, l, clickY) ==
    LET c == w.cv[l]
        v == w.view[l]
    IN  IF ~c.exists \/ ~isMarkdownView(v) \/ ~hasScroller(v) THEN w
        ELSE LET top == newScrollTop(clickY, c.cssHeight, v.scrollHeight, v.clientHeight)
                 done(v1, r) ==
                   [ w EXCEPT !.view[l] = v1,
                              !.cv[l] = r.cv,
                              !.canvasHeight = c.cssHeight,
                              !.calls = Append(@, CallRec("scrollToMinimapPosition", l, v1,
                                                          c, r.cv, r.resized, r.ops)) ]
             IN  done([v EXCEPT !.scrollTop = top],
                      update(s, [v EXCEPT !.scrollTop = top], c))

(***************************************************************************)
(* The plugin's helpers.                                                   *)
(***************************************************************************)
\* MinimapPlugin.updateMinimap
updateMinimap(w, s, l) == IF InRegistry(w, l) THEN rUpdate(w, s, l) ELSE w

\* MinimapPlugin.refreshMinimaps: syncVisibility on every renderer, in Map order
RECURSIVE refreshFrom(_, _, _)
refreshFrom(w, s, i) ==
    IF i > Len(w.minimaps) THEN w
    ELSE refreshFrom(syncVisibility(w, s, w.minimaps[i]), s, i + 1)

refreshMinimaps(w, s) == refreshFrom(w, s, 1)

\* MinimapPlugin.createMinimap
createMinimap(w, s, l) ==
    IF l = NoLeaf THEN w
    ELSE IF ~isMarkdownView(w.view[l]) THEN w
    ELSE IF InRegistry(w, l) THEN w
    ELSE LET w1 == attach(w, s, l)
             w2 == [ w1 EXCEPT !.pluginScroll[l] =
                                  IF hasScroller(w.view[l]) THEN @ + 1 ELSE @,
                               !.minimaps = Append(@, l) ]
         IN  syncVisibility(w2, s, l)

\* a renderer that leaves the registry without detach()
dropRenderer_NoDetach(w, l) ==
    [ w EXCEPT !.minimaps = SelectSeq(@, LAMBDA x : x # l) ]

\* a renderer leaves the registry: detach(), then minimaps.delete(leaf); a scroll
\* listener detach() could not remove stays on the scroller
dropRenderer(w, l) ==
    LET w1 == detach(w, l)
    IN  [ w1 EXCEPT !.minimaps = SelectSeq(@, LAMBDA x : x # l),
                    !.staleScroll = IF w1.hooked[l] THEN @ + 1 ELSE @,
                    !.hooked[l] = FALSE ]

RECURSIVE dropAll(_, _)
dropAll(w, ls) ==
    IF ls = <<>> THEN w ELSE dropAll(dropRenderer(w, Head(ls)), Tail(ls))

RECURSIVE createAll(_, _, _)
createAll(w, s, ls) ==
    IF ls = <<>> THEN w
    ELSE createAll(IF InRegistry(w, Head(ls)) THEN w ELSE createMinimap(w, s, Head(ls)),
                   s, Tail(ls))

\* the leaves of a set in the workspace's order
LeafSeq(ls) ==
    (IF "L1" \in ls THEN <<"L1">> ELSE <<>>) \o (IF "L2" \in ls THEN <<"L2">> ELSE <<>>)

\* MinimapPlugin.handleLayoutChange, leaves = getLeavesOfType("markdown")
handleLayoutChange(w, s, leaves) ==
    LET gone == SelectSeq(w.minimaps, LAMBDA x : x \notin leaves)
    IN  createAll(dropAll(w, gone), s, LeafSeq(leaves))

\* what saveData(settings) writes: the record as JSON, where a list is told from
\* any other value by its shape (isArray)
Persist(s) == [ s EXCEPT !.disabledFiles = [isArray |-> TRUE, items |-> @] ]

\* loadData() throws
ReadFails == [readFails |-> TRUE]

\* Object.assign({}, DEFAULT_SETTINGS): a new record with the values of the
\* defaults' keys; its disabledFiles is the defaults' own array, items as they are now
copyDefaults == [ DEFAULT_SETTINGS EXCEPT !.disabledFiles = defaultFiles.items ]

\* loadSettings leaves settings.disabledFiles the defaults' own array: the read
\* threw, or gave nothing and the copy was kept as it is
keepsDefaultFiles(data) == "readFails" \in DOMAIN data \/ "nodata" \in DOMAIN data

\* MinimapPlugin.loadSettings on what loadData() gives: the defaults when the read
\* throws or gives nothing; else disabledFiles is the stored list or [], and every
\* other stored key is copied as it is
loadSettings(data) ==
    IF "readFails" \in DOMAIN data THEN copyDefaults
    ELSE IF "nodata" \in DOMAIN data THEN copyDefaults
    ELSE [ k \in DOMAIN DEFAULT_SETTINGS \cup DOMAIN data |->
             IF k = "disabledFiles"
               THEN IF k \in DOMAIN data /\ data[k].isArray THEN data[k].items ELSE <<>>
               ELSE IF k \in DOMAIN data THEN data[k] ELSE DEFAULT_SETTINGS[k] ]

\* the toggle command's change of settings.disabledFiles for path p
toggleDisabled(files, p) ==
    LET idx == IF \E i \in 1..Len(files) : files[i] = p
                 THEN CHOOSE i \in 1..Len(files) :
                        files[i] = p /\ \A j \in 1..(i - 1) : files[j] # p
                 ELSE 0
    IN  IF idx = 0 THEN Append(files, p)
        ELSE SubSeq(files, 1, idx - 1) \o SubSeq(files, idx + 1, Len(files))

\* view.getViewData(): the document's lines joined by line feeds
Newline == "\n"

RECURSIVE getViewData(_)
getViewData(doc) ==
    IF doc = <<>> THEN <<>>
    ELSE IF Len(doc) = 1 THEN doc[1]
    ELSE doc[1] \o <<Newline>> \o getViewData(Tail(doc))

\* the first index j >= i with content[j] = c, the search stopping at a line feed
\* when sameLine; 0 if there is none
RECURSIVE FindChar(_, _, _, _)
FindChar(content, c, i, sameLine) ==
    IF i > Len(content) THEN 0
    ELSE IF content[i] = c THEN i
    ELSE IF sameLine /\ content[i] = Newline THEN 0
    ELSE FindChar(content, c, i + 1, sameLine)

\* the first index k >= i where "]]" starts, with no line feed in i..k-1; 0 if none
RECURSIVE FindClose(_, _)
FindClose(content, i) ==
    IF i + 1 > Len(content) THEN 0
    ELSE IF content[i] = "]" /\ content[i + 1] = "]" THEN i
    ELSE IF content[i] = Newline THEN 0
    ELSE FindClose(content, i + 1)

\* results.push(src) of parseContentForImages for a capture m[1]
imageResult(capture) ==
    LET src == Trim(capture)
    IN  IF src # <<>> /\ isImagePath(src) THEN <<src>> ELSE <<>>

\* the matches of /!\[[^\]]*]\((.*?)\)/g from index i on, in order
RECURSIVE mdImages(_, _)
mdImages(content, i) ==
    IF i + 1 > Len(content) THEN <<>>
    ELSE IF content[i] = "!" /\ content[i + 1] = "["
      THEN LET j == FindChar(content, "]", i + 2, FALSE)
               k == IF j = 0 \/ j + 1 > Len(content) \/ content[j + 1] # "(" THEN 0
                    ELSE FindChar(content, ")", j + 2, TRUE)
           IN  IF k = 0 THEN mdImages(content, i + 1)
               ELSE imageResult(SubSeq(content, j + 2, k - 1)) \o mdImages(content, k + 1)
      ELSE mdImages(content, i + 1)

\* the matches of /!\[\[(.*?)\]\]/g from index i on, in order
RECURSIVE wikiImages(_, _)
wikiImages(content, i) ==
    IF i + 2 > Len(content) THEN <<>>
    ELSE IF content[i] = "!" /\ content[i + 1] = "[" /\ content[i + 2] = "["
      THEN LET k == FindClose(content, i + 3)
           IN  IF k = 0 THEN wikiImages(content, i + 1)
               ELSE imageResult(SubSeq(content, i + 3, k - 1))
                      \o wikiImages(content, k + 2)
      ELSE wikiImages(content, i + 1)

\* MinimapPlugin.parseContentForImages
parseContentForImages(content) == mdImages(content, 1) \o wikiImages(content, 1)

\* the loads images.map starts in prerenderMinimap: one for every entry of images
\* that minimapCache does not have when the pass begins
startLoads(w, images) ==
    [ w EXCEPT !.preload.loading = SelectSeq(images, LAMBDA src : src \notin w.preload.cache) ]

\* workspace.getActiveFile()
getActiveFile == IF activeLeaf = NoLeaf THEN NoFile ELSE view[activeLeaf].file

(***************************************************************************)
(* Actions: one per handler.  Commit(op, l, y, w) writes the world a       *)
(* handler leaves and records the handler in log.                          *)
(***************************************************************************)
Commit(op, l, clickY, world) ==
    \E w \in {world} :
        /\ cv' = w.cv
        /\ view' = w.view
        /\ hooked' = w.hooked
        /\ staleScroll' = w.staleScroll
        /\ pluginScroll' = w.pluginScroll
        /\ docListeners' = w.docListeners
        /\ isDragging' = w.isDragging
        /\ minimaps' = w.minimaps
        /\ surfaces' = w.surfaces
        /\ overlay' = w.overlay
        /\ preload' = w.preload
        /\ log' = [ op |-> op, leaf |-> l, clickY |-> clickY,
                    canvasHeight |-> w.canvasHeight, calls |-> w.calls ]

\* the listeners attach() adds to the document are never removed: attach() runs
\* while at most MaxDocListeners would be registered after it
MaxDocListeners == 4

\* at most MaxPending callbacks and awaits are outstanding at a time; a handler
\* that starts a save takes the number it runs within as room
MaxPending == 1

CanAttach(n) == docListeners + 2 * n <= MaxDocListeners

\* MinimapPlugin.onload: loadSettings(), createMinimap(activeLeaf), and the
\* onLayoutReady callback is handed to the workspace
Onload ==
    /\ ~loaded
    /\ CanAttach(1)
    /\ Len(pending) < MaxPending
    /\ loaded' = TRUE
    /\ settings' = loadSettings(stored)
    /\ defaultFiles' = [defaultFiles EXCEPT !.shared = keepsDefaultFiles(stored)]
    /\ pending' = Append(pending, "layoutReady")
    /\ Commit("onload", activeLeaf, NaN, createMinimap(World, settings', activeLeaf))
    /\ UNCHANGED << stored, open, activeLeaf >>

\* the workspace calls the onLayoutReady callback: prerenderMinimap() starts a
\* load for the images of the active document and awaits them all; with no load to
\* await refreshMinimaps() follows at once.  One pass runs at a time.
LayoutReady ==
    /\ preload.loading = <<>>
    /\ \E i \in 1..Len(pending) :
         /\ pending[i] = "layoutReady"
         /\ pending' = SubSeq(pending, 1, i - 1) \o SubSeq(pending, i + 1, Len(pending))
    /\ IF settings.showMinimap /\ activeLeaf # NoLeaf /\ isMarkdownView(view[activeLeaf])
         THEN LET done(w) == IF w.preload.loading = <<>>
                               THEN refreshMinimaps(w, settings) ELSE w
              IN  Commit("layoutReady", activeLeaf, NaN,
                         done(startLoads(World, parseContentForImages(
                                                  getViewData(view[activeLeaf].doc)))))
         ELSE Commit("layoutReady", NoLeaf, NaN, World)
    /\ UNCHANGED << defaultFiles, loaded, settings, stored, open, activeLeaf >>

\* an image of the pass fires "load" or "error": its promise resolves and the image
\* goes into minimapCache; when it was the last one awaited, refreshMinimaps() runs
ImageSettled ==
    /\ \E i \in 1..Len(preload.loading), ok \in BOOLEAN :
         LET rest == SubSeq(preload.loading, 1, i - 1)
                       \o SubSeq(preload.loading, i + 1, Len(preload.loading))
             w == [ World EXCEPT !.preload = [ cache |-> @.cache \cup {preload.loading[i]},
                                               loading |-> rest ] ]
         IN  Commit(IF ok THEN "imageLoad" ELSE "imageError", NoLeaf, NaN,
                    IF rest = <<>> THEN refreshMinimaps(w, settings) ELSE w)
    /\ UNCHANGED << defaultFiles, loaded, settings, stored, pending, open, activeLeaf >>

\* MinimapPlugin.onunload; the listeners registerDomEvent added go with the plugin
Onunload ==
    /\ loaded
    /\ loaded' = FALSE
    /\ Commit("onunload", NoLeaf, NaN,
              [ dropAll(World, minimaps) EXCEPT !.pluginScroll = [l \in Leaves |-> 0] ])
    /\ UNCHANGED << defaultFiles, settings, stored, pending, open, activeLeaf >>

\* the "Toggle Minimap for Current Note" command
ToggleCommand(room) ==
    /\ loaded
    /\ Len(pending) < room
    /\ IF getActiveFile = NoFile
         THEN /\ Commit("toggle", activeLeaf, NaN, World)
              /\ UNCHANGED << settings, stored, pending, defaultFiles >>
         ELSE /\ settings' = [settings EXCEPT
                                !.disabledFiles = toggleDisabled(@, getActiveFile)]
              /\ defaultFiles' = IF defaultFiles.shared
                                   THEN [defaultFiles EXCEPT
                                           !.items = settings'.disabledFiles]
                                   ELSE defaultFiles
              /\ stored' = Persist(settings')
              /\ pending' = Append(pending, "none")
              /\ Commit("toggle", activeLeaf, NaN, refreshMinimaps(World, settings'))
    /\ UNCHANGED << loaded, open, activeLeaf >>

\* a settings tab control's onChange, up to its await: the field is assigned and
\* saveSettings() called
SettingChange(changes, room) ==
    /\ loaded
    /\ Len(pending) < room
    /\ \E ch \in changes :
         /\ settings[ch[1]] # ch[2]
         /\ settings' = [settings EXCEPT ![ch[1]] = ch[2]]
    /\ stored' = Persist(settings')
    /\ pending' = Append(pending, "refresh")
    /\ Commit("settingChange", NoLeaf, NaN, World)
    /\ UNCHANGED << defaultFiles, loaded, open, activeLeaf >>

\* an await of saveSettings() completes: in a settings control's or a menu item's
\* handler, which calls refreshMinimaps() next, or in the toggle command, where
\* nothing follows
SaveDone ==
    /\ \E i \in 1..Len(pending) :
         /\ pending[i] # "layoutReady"
         /\ pending' = SubSeq(pending, 1, i - 1) \o SubSeq(pending, i + 1, Len(pending))
         /\ IF pending[i] = "refresh"
              THEN Commit("saveDone", NoLeaf, NaN, refreshMinimaps(World, settings))
              ELSE Commit("saveDone", NoLeaf, NaN, World)
    /\ UNCHANGED << defaultFiles, loaded, settings, stored, open, activeLeaf >>

\* a canvas takes pointer events when it is in the document and not display: none
Clickable(l) == cv[l].exists /\ cv[l].display # "none"

\* createContextMenu without the removal of the menu that exists
createContextMenu_KeepsExisting(w) ==
    [ w EXCEPT !.overlay = [ menus |-> @.menus + 1, live |-> @.live + 1,
                             stale |-> @.stale ] ]

\* MinimapRenderer.createContextMenu: the menu querySelector finds is removed (its
\* closeMenu listener stays on the document), a new menu is appended to
\* document.body and its closeMenu listener added to the document
createContextMenu(w) ==
    LET had == w.overlay.menus > 0
        o1 == IF had
                THEN [ menus |-> w.overlay.menus - 1,
                       live  |-> IF w.overlay.live > 0 THEN w.overlay.live - 1 ELSE 0,
                       stale |-> IF w.overlay.live > 0 THEN w.overlay.stale + 1
                                 ELSE w.overlay.stale ]
                ELSE w.overlay
    IN  [ w EXCEPT !.overlay = [ menus |-> o1.menus + 1, live |-> o1.live + 1,
                                 stale |-> o1.stale ] ]

\* every closeMenu listener on the document runs for a click: one whose menu does
\* not contain the target removes its menu and itself; inMenu tells whether the
\* target is inside a menu of the document
closeMenu(w, inMenu) ==
    LET keep == IF inMenu /\ w.overlay.live > 0 THEN 1 ELSE 0
        gone == w.overlay.live - keep
    IN  [ w EXCEPT !.overlay = [ menus |-> IF @.menus > gone THEN @.menus - gone ELSE 0,
                                 live  |-> keep,
                                 stale |-> 0 ] ]

\* closeMenu listeners are added on every right-click and leave only on a click:
\* a menu opens while fewer than MaxCloseListeners are on the document
MaxCloseListeners == 3

\* "contextmenu" on the canvas of leaf l
ContextMenu(ls) ==
    /\ overlay.live + overlay.stale < MaxCloseListeners
    /\ \E l \in ls :
         /\ Clickable(l)
         /\ Commit("contextmenu", l, NaN, createContextMenu(World))
    /\ UNCHANGED << defaultFiles, loaded, settings, stored, pending, open, activeLeaf >>

\* a click in the document that is on no menu item: outside every menu, or on a
\* menu's section title
DocumentClick ==
    /\ \E inMenu \in {b \in BOOLEAN : b => overlay.menus > 0} :
         Commit(IF inMenu THEN "clickInMenu" ELSE "click", NoLeaf, NaN,
                closeMenu(World, inMenu))
    /\ UNCHANGED << defaultFiles, loaded, settings, stored, pending, open, activeLeaf >>

\* the values of the context menu's ten scale and ten opacity items, (i + 1) * 0.1
MenuValues == { Dec(i + 1) : i \in 0..9 }

\* a click on a context menu item, up to its handler's await: the field is
\* assigned and saveSettings() called; the click then reaches the document
MenuSelect(fields, values, room) ==
    /\ overlay.menus > 0
    /\ Len(pending) < room
    /\ \E k \in fields, x \in values \cap MenuValues :
         settings' = [settings EXCEPT ![k] = x]
    /\ stored' = Persist(settings')
    /\ pending' = Append(pending, "refresh")
    /\ Commit("menuSelect", NoLeaf, NaN, closeMenu(World, TRUE))
    /\ UNCHANGED << defaultFiles, loaded, open, activeLeaf >>

\* the document-level scroll handler of onload
DocumentScroll ==
    /\ loaded
    /\ Commit("documentScroll", activeLeaf, NaN,
              IF activeLeaf # NoLeaf /\ isMarkdownView(view[activeLeaf]) /\ ~isDragging
                THEN updateMinimap(World, settings, activeLeaf)
                ELSE World)
    /\ UNCHANGED << defaultFiles, loaded, settings, stored, pending, open, activeLeaf >>

\* the set of markdown leaves changes (or not) and "layout-change" fires
LayoutChange(leaves) ==
    /\ loaded
    /\ \E newOpen \in SUBSET leaves :
         /\ CanAttach(Cardinality(newOpen))
         /\ open' = newOpen
         /\ activeLeaf' = IF activeLeaf \in newOpen THEN activeLeaf ELSE NoLeaf
         /\ Commit("layoutChange", NoLeaf, NaN,
                   handleLayoutChange(World, settings, newOpen))
    /\ UNCHANGED << defaultFiles, loaded, settings, stored, pending >>

\* a leaf becomes active and "active-leaf-change" fires
ActiveLeafChange(ls) ==
    /\ loaded
    /\ CanAttach(1)
    /\ \E l \in (open \cup {NoLeaf}) \cap ls :
         /\ activeLeaf' = l
         /\ Commit("activeLeafChange", l, NaN,
                   IF l # NoLeaf /\ isMarkdownView(view[l])
                     THEN updateMinimap(createMinimap(World, settings, l), settings, l)
                     ELSE World)
    /\ UNCHANGED << defaultFiles, loaded, settings, stored, pending, open >>

\* the active document is edited and "editor-change" fires
EditorChange(docs) ==
    /\ loaded
    /\ activeLeaf # NoLeaf
    /\ isMarkdownView(view[activeLeaf])
    /\ \E d \in docs :
         LET w == [World EXCEPT !.view[activeLeaf].doc = d]
         IN  Commit("editorChange", activeLeaf, NaN,
                    updateMinimap(w, settings, activeLeaf))
    /\ UNCHANGED << defaultFiles, loaded, settings, stored, pending, open, activeLeaf >>

\* onEditorScroll that calls update() during a drag as well
onEditorScroll_NoDragCheck(w, s, l) == rUpdate(w, s, l)

\* MinimapRenderer.onEditorScroll
onEditorScroll(w, s, l) == IF w.isDragging THEN w ELSE rUpdate(w, s, l)

\* the scroll listeners createMinimap added to a leaf's scroller run: each calls
\* update() unless a drag is in progress
RECURSIVE scrollListeners(_, _, _, _)
scrollListeners(w, s, l, n) ==
    IF n = 0 THEN w
    ELSE scrollListeners(IF w.isDragging THEN w ELSE rUpdate(w, s, l), s, l, n - 1)

\* the scroll offsets the host may move a view to
ScrollTops(v) == {R(0), R(v.scrollHeight - v.clientHeight)}

\* the user scrolls the editor of leaf l: onEditorScroll of the leaf's renderer and
\* the listeners createMinimap registered on the scroller
EditorScroll(ls) ==
    /\ \E l \in ls \cap open :
         /\ isMarkdownView(view[l]) /\ hasScroller(view[l])
         /\ \E top \in ScrollTops(view[l]) :
              LET w == [World EXCEPT !.view[l].scrollTop = top]
              IN  Commit("editorScroll", l, NaN,
                         scrollListeners(IF hooked[l] THEN onEditorScroll(w, settings, l)
                                         ELSE w,
                                         settings, l, pluginScroll[l]))
    /\ UNCHANGED << defaultFiles, loaded, settings, stored, pending, open, activeLeaf >>

\* the offsets e.clientY - rect.top of a pointer event on a canvas: the multiples
\* of step within the canvas' height, and the height itself
ClickYs(c, step) ==
    {R(y) : y \in {y \in 0..c.cssHeight.n : y % step = 0}} \cup {c.cssHeight}

\* mousedown on the canvas of leaf l, with any of buttons ("primary" for
\* e.button 0, "secondary" for e.button 2); the listener does not read e.button
MouseDown(ls, step, buttons) ==
    /\ \E l \in ls, button \in buttons :
         /\ Clickable(l)
         /\ \E y \in ClickYs(cv[l], step) :
              Commit(IF button = "primary" THEN "mousedown" ELSE "mousedownSecondary", l, y,
                     scrollToMinimapPosition([World EXCEPT !.isDragging = TRUE],
                                             settings, l, y))
    /\ UNCHANGED << defaultFiles, loaded, settings, stored, pending, open, activeLeaf >>

\* mousemove on the canvas of leaf l
MouseMove(ls, step) ==
    /\ \E l \in ls :
         /\ Clickable(l)
         /\ \E y \in ClickYs(cv[l], step) :
              Commit("mousemove", l, y,
                     IF isDragging THEN scrollToMinimapPosition(World, settings, l, y)
                     ELSE World)
    /\ UNCHANGED << defaultFiles, loaded, settings, stored, pending, open, activeLeaf >>

\* mouseup or mouseleave on the document: every listener attach() added clears the flag
MouseUp ==
    /\ docListeners > 0
    /\ Commit("mouseup", NoLeaf, NaN, [World EXCEPT !.isDragging = FALSE])
    /\ UNCHANGED << defaultFiles, loaded, settings, stored, pending, open, activeLeaf >>

(***************************************************************************)
(* The host changes on its own; no handler of the plugin runs.             *)
(***************************************************************************)
HostStep(l, v) ==
    /\ v # view[l]
    /\ view' = [view EXCEPT ![l] = v]
    /\ log' = [ op |-> "host", leaf |-> l, clickY |-> NaN, canvasHeight |-> NaN,
                calls |-> <<>> ]
    /\ UNCHANGED << defaultFiles, loaded, settings, stored, pending, open, activeLeaf,
                    minimaps, cv, hooked, staleScroll, pluginScroll, docListeners,
                    isDragging, surfaces, overlay, preload >>

\* what the view supplies changes (a deferred view loads, the editor is rebuilt, ...)
CapChange(ls, caps) ==
    \E l \in ls, c \in caps : HostStep(l, [view[l] EXCEPT !.cap = c])

\* another file is opened in the leaf
FileOpen(ls, files, docs) ==
    \E l \in ls, f \in files, d \in docs :
        HostStep(l, [view[l] EXCEPT !.file = f, !.doc = d, !.scrollTop = R(0)])

\* the scroller's content or viewport height changes; the scroll offset stays in range
Relayout(ls, geoms) ==
    \E l \in ls, g \in geoms :
        HostStep(l, [view[l] EXCEPT !.scrollHeight = g[1], !.clientHeight = g[2],
                                    !.scrollTop = MathMin(@, R(g[1] - g[2]))])

(***************************************************************************)
(* Documents.                                                              *)
(***************************************************************************)
\* ["# Title", "", "plain text line", "```", "code", "```"]
DocScenario ==
    << <<"#", " ", "T", "i", "t", "l", "e">>,
       <<>>,
       <<"p", "l", "a", "i", "n", " ", "t", "e", "x", "t", " ", "l", "i", "n", "e">>,
       <<Backtick, Backtick, Backtick>>,
       <<"c", "o", "d", "e">>,
       <<Backtick, Backtick, Backtick>> >>

\* ["![[photo.png]]", "## Title", "```rust", "a | b | c", "", "![[note]]", "  - item"]
DocSamples ==
    << <<"!", "[", "[", "p", "h", "o", "t", "o", ".", "p", "n", "g", "]", "]">>,
       <<"#", "#", " ", "T", "i", "t", "l", "e">>,
       <<Backtick, Backtick, Backtick, "r", "u", "s", "t">>,
       <<"a", " ", "|", " ", "b", " ", "|", " ", "c">>,
       <<>>,
       <<"!", "[", "[", "n", "o", "t", "e", "]", "]">>,
       <<" ", " ", "-", " ", "i", "t", "e", "m">> >>

\* ["# T", "ab"]
DocSmall ==
    << <<"#", " ", "T">>,
       <<"a", "b">> >>

(***************************************************************************)
(* Initial states.                                                         *)
(***************************************************************************)
\* the view of a leaf a specification leaves alone
IdleView ==
    [ cap |-> "notMarkdown", file |-> NoFile, doc |-> <<>>,
      scrollTop |-> R(0), scrollHeight |-> 0, clientHeight |-> 0 ]

\* the state after the plugin object is constructed, before onload
InitPlugin ==
    /\ loaded = FALSE
    /\ settings = DEFAULT_SETTINGS
    /\ pending = <<>>
    /\ minimaps = <<>>
    /\ cv = [l \in Leaves |-> NoCanvas]
    /\ hooked = [l \in Leaves |-> FALSE]
    /\ staleScroll = 0
    /\ pluginScroll = [l \in Leaves |-> 0]
    /\ docListeners = 0
    /\ isDragging = FALSE
    /\ surfaces = [l \in Leaves |-> 0]
    /\ overlay = NoOverlay
    /\ preload = [ cache |-> {}, loading |-> <<>> ]
    /\ defaultFiles = [ items |-> DEFAULT_SETTINGS.disabledFiles, shared |-> FALSE ]
    /\ log = [ op |-> "init", leaf |-> NoLeaf, clickY |-> NaN, canvasHeight |-> NaN,
               calls |-> <<>> ]

\* the views of the leaves ls, each showing a file of files with the text of docs
\* and scrolled to the top; a view of the other leaves supplies nothing
InitHost(ls, caps, files, docs, geoms) ==
    \E c \in caps, f \in files, d \in docs, g \in geoms :
        view = [l \in Leaves |->
                  IF l \in ls
                    THEN [ cap |-> c, file |-> f, doc |-> d, scrollTop |-> R(0),
                           scrollHeight |-> g[1], clientHeight |-> g[2] ]
                    ELSE IdleView]

AllCaps == {Caps[i] : i \in 1..Len(Caps)}

(***************************************************************************)
(* Spec: visibility.  One markdown leaf, every capability of its view, two *)
(* files, the showMinimap toggle of the settings tab and the toggle        *)
(* command, scrolling, editing and dragging.                               *)
(***************************************************************************)
VisLeaves == {"L1"}

VisDocs == {DocSmall}

\* pointer events at the top and at the bottom of the canvas only
VisClickStep == 50

VisGeoms == { <<400, 200>> }

VisChanges == { <<"showMinimap", TRUE>>, <<"showMinimap", FALSE>> }

Init ==
    /\ InitPlugin
    /\ stored = NoData
    /\ open = VisLeaves
    /\ activeLeaf \in open
    /\ InitHost(VisLeaves, {"full", "noScroller"}, Paths, {DocSmall}, VisGeoms)

Next ==
    \/ Onload
    \/ LayoutReady
    \/ ToggleCommand(MaxPending)
    \/ SettingChange(VisChanges, MaxPending)
    \/ SaveDone
    \/ DocumentScroll
    \/ ActiveLeafChange(VisLeaves)
    \/ EditorChange(VisDocs)
    \/ EditorScroll(VisLeaves)
    \/ MouseDown(VisLeaves, VisClickStep, {"primary"})
    \/ MouseMove(VisLeaves, VisClickStep)
    \/ MouseUp
    \/ CapChange(VisLeaves, AllCaps)
    \/ FileOpen(VisLeaves, Paths, VisDocs)

Spec == Init /\ [][Next]_vars

(***************************************************************************)
(* SpecLife: the lifecycle.  Leaves open and close, the plugin is loaded   *)
(* and unloaded, views gain and lose what they supply.                     *)
(***************************************************************************)
LifeLeaves == {"L1"}

InitLife ==
    /\ InitPlugin
    /\ stored = NoData
    /\ open \in SUBSET LifeLeaves
    /\ activeLeaf \in open \cup {NoLeaf}
    /\ InitHost(LifeLeaves, AllCaps, {"notes/a.md"}, {DocSmall}, { <<400, 200>> })

NextLife ==
    \/ Onload
    \/ LayoutReady
    \/ Onunload
    \/ LayoutChange(LifeLeaves)
    \/ ActiveLeafChange(LifeLeaves \cup {NoLeaf})
    \/ DocumentScroll
    \/ EditorScroll(LifeLeaves)
    \/ CapChange(LifeLeaves, AllCaps)

SpecLife == InitLife /\ [][NextLife]_vars

(***************************************************************************)
(* Visibility (checked under Spec).                                        *)
(***************************************************************************)
\* path is a member of settings.disabledFiles
IsDisabled(s, path) == \E i \in 1..Len(s.disabledFiles) : s.disabledFiles[i] = path

\* the calls of the last handler that were fn on leaf l
CallsOf(fn, l) == SelectSeq(log.calls, LAMBDA c : c.fn = fn /\ c.leaf = l)

\* the last handler ran syncVisibility() on the renderer of leaf l for the file the
\* view shows now, that file is in disabledFiles, and the handler left the canvas
\* hidden
SyncedDisabled(l) ==
    /\ cv[l].exists
    /\ isMarkdownView(view[l])
    /\ IsDisabled(settings, view[l].file)
    /\ CallsOf("syncVisibility", l) # <<>>
    /\ \A k \in 1..Len(CallsOf("syncVisibility", l)) :
         CallsOf("syncVisibility", l)[k].file = view[l].file
    /\ cv[l].display = "none"

\* C1: once syncVisibility() has hidden the canvas of a document whose path is in
\* disabledFiles, a following event that leaves the path in disabledFiles leaves
\* the canvas hidden, and no call the event makes paints on it.
C1_DisabledStaysSuppressed ==
    [][ \A l \in Leaves :
          ( /\ SyncedDisabled(l)
            /\ cv'[l].exists
            /\ view'[l].file = view[l].file
            /\ IsDisabled(settings', view'[l].file) )
          => /\ cv'[l].display = "none"
             /\ \A k \in 1..Len(log'.calls) :
                  log'.calls[k].leaf = l => log'.calls[k].nOps = 0 ]_vars

\* C2: syncVisibility() on a renderer with a canvas whose document's path is in
\* disabledFiles leaves the canvas hidden and paints nothing, whether showMinimap
\* is true or false; isMinimapEnabledForFile is false for that path.
C2_SyncHidesDisabled ==
    \A l \in Leaves :
      \A k \in 1..Len(CallsOf("syncVisibility", l)) :
        LET c == CallsOf("syncVisibility", l)[k]
        IN  (c.hadCanvas /\ IsDisabled(settings, c.file))
            => /\ c.hasCanvas
               /\ c.display = "none"
               /\ ~c.resized
               /\ c.nOps = 0
               /\ ~isMinimapEnabledForFile(settings, c.file)
               /\ ~isMinimapEnabledForFile([settings EXCEPT !.showMinimap = TRUE], c.file)
               /\ ~isMinimapEnabledForFile([settings EXCEPT !.showMinimap = FALSE], c.file)

\* the toggle command disabled the active document of a view that supplies
\* everything, while showMinimap is true: syncVisibility() hid a displayed canvas
C2_Witness ==
    /\ log.op = "toggle"
    /\ settings.showMinimap
    /\ settings.disabledFiles = << "notes/a.md" >>
    /\ \E l \in Leaves :
         /\ view[l].cap = "full"
         /\ view[l].file = "notes/a.md"
         /\ CallsOf("syncVisibility", l) # <<>>
         /\ cv[l].exists
         /\ cv[l].display = "none"
         /\ cv[l].raster # <<>>

\* the same with showMinimap false
C2_WitnessShowOff ==
    /\ ~settings.showMinimap
    /\ \E l \in Leaves :
         /\ IsDisabled(settings, view[l].file)
         /\ CallsOf("syncVisibility", l) # <<>>
         /\ cv[l].exists

\* C3: an update() on a renderer with a canvas while showMinimap is false ends
\* with the canvas hidden, resizes and paints nothing, and leaves the canvas in
\* place, whatever the view supplies.
C3_UpdateHidesWhenOff ==
    \A l \in Leaves :
      \A k \in 1..Len(CallsOf("update", l)) :
        LET c == CallsOf("update", l)[k]
        IN  (c.hadCanvas /\ ~settings.showMinimap)
            => /\ c.hasCanvas
               /\ c.display = "none"
               /\ ~c.resized
               /\ c.nOps = 0

(***************************************************************************)
(* Lifecycle (checked under SpecLife).                                     *)
(***************************************************************************)
\* no renderer has a canvas: every attach() was followed by its detach()
AllDetached == minimaps = <<>> /\ \A l \in Leaves : ~cv[l].exists

\* C4: after detach() the canvas is gone and no listener attach() registered is
\* left: with every renderer detached there is no document-level mouseup or
\* mouseleave listener, and no onEditorScroll listener on a scroller.
C4_DetachRemovesListeners ==
    AllDetached =>
      /\ docListeners = 0
      /\ staleScroll = 0
      /\ \A l \in Leaves : ~hooked[l]

\* C5: attach() creates nothing, registers nothing and paints nothing when the
\* renderer has a canvas already or the view supplies no scrollable region;
\* otherwise it creates the canvas and paints once.
C5_AttachNoOpWithoutScroller ==
    \A l \in Leaves :
      \A k \in 1..Len(CallsOf("attach", l)) :
        LET c == CallsOf("attach", l)[k]
        IN  IF c.hadCanvas \/ c.cap \in {"notMarkdown", "noScroller"}
              THEN /\ c.hasCanvas = c.hadCanvas
                   /\ c.registered = 0
                   /\ c.nOps = 0
              ELSE /\ c.hasCanvas
                   /\ c.registered > 0
                   /\ c.nOps > 0

(***************************************************************************)
(* SpecScroll: click and drag to scroll.  One attached leaf, content and   *)
(* viewport heights from ScrollGeoms (a hidden scroller reports 0 for      *)
(* both), two surface heights, pointer offsets every ScrollClickStep px.   *)
(***************************************************************************)
ScrollLeaves == {"L1"}

ScrollGeoms == { <<0, 0>>, <<200, 200>>, <<400, 200>>, <<900, 300>> }

ScrollClickStep == 5

ScrollChanges == { <<"minimapScaling", Dec(5)>>, <<"minimapScaling", Dec(10)>> }

InitScroll ==
    /\ InitPlugin
    /\ stored = NoData
    /\ open = ScrollLeaves
    /\ activeLeaf \in open
    /\ InitHost(ScrollLeaves, {"full", "noCtx"}, {"notes/a.md"}, {DocSmall}, ScrollGeoms)

NextScroll ==
    \/ Onload
    \/ LayoutReady
    \/ SettingChange(ScrollChanges, MaxPending)
    \/ SaveDone
    \/ EditorScroll(ScrollLeaves)
    \/ MouseDown(ScrollLeaves, ScrollClickStep, {"primary"})
    \/ MouseMove(ScrollLeaves, ScrollClickStep)
    \/ MouseUp
    \/ Relayout(ScrollLeaves, ScrollGeoms)

SpecScroll == InitScroll /\ [][NextScroll]_vars

(***************************************************************************)
(* Click to scroll (checked under SpecScroll).                             *)
(***************************************************************************)
\* the last handler was a pointer event that ran scrollToMinimapPosition to its end
ClickScrolled == log.op \in {"mousedown", "mousemove"} /\ IsFinite(log.canvasHeight)

\* clamp(x, lo, hi)
Clamp(x, lo, hi) == IF RLt(x, lo) THEN lo ELSE IF RLt(hi, x) THEN hi ELSE x

\* c / surfaceHeight * totalContentHeight of the last pointer event
ClickTarget ==
    RMul(RDiv(log.clickY, log.canvasHeight), R(view[log.leaf].scrollHeight))

\* the offset before clamping: ClickTarget - viewportHeight / 2
ClickUnclamped == RSub(ClickTarget, RDiv(R(view[log.leaf].clientHeight), R(2)))

\* C6: for a pointer offset c in [0, surfaceHeight] and totalContentHeight >=
\* viewportHeight >= 0, the scroll offset written by the click is
\* clamp(c / surfaceHeight * totalContentHeight - viewportHeight / 2, 0,
\* totalContentHeight - viewportHeight), so it lies in
\* [0, totalContentHeight - viewportHeight].
C6_ScrollOffsetIsClamped ==
    ClickScrolled =>
      LET v == view[log.leaf]
          s == v.scrollTop
      IN  ( /\ RLe(R(0), log.clickY) /\ RLe(log.clickY, log.canvasHeight)
            /\ v.scrollHeight >= v.clientHeight /\ v.clientHeight >= 0 )
          => /\ s = Clamp(ClickUnclamped, R(0), R(v.scrollHeight - v.clientHeight))
             /\ RLe(R(0), s)
             /\ RLe(s, R(v.scrollHeight - v.clientHeight))

\* a click strictly inside the range: the offset written is neither bound
C6_Witness ==
    /\ ClickScrolled
    /\ RLt(R(0), view[log.leaf].scrollTop)
    /\ RLt(view[log.leaf].scrollTop,
           R(view[log.leaf].scrollHeight - view[log.leaf].clientHeight))

\* the vertical centre of the indicator update() computes for the view of the last
\* pointer event, in document coordinates: (indicatorY + indicatorHeight / 2) / scale
IndicatorCentreDoc ==
    LET v     == view[log.leaf]
        scale == scaleOf(settings, v)
        rect  == IndicatorRect(v.scrollTop, v.clientHeight, scale)
    IN  RDiv(RAdd(rect.y, RDiv(rect.h, R(2))), scale)

RAbs(a) == IF RLt(a, R(0)) THEN RNeg(a) ELSE a

C7_WitnessUnclamped ==
    /\ ClickScrolled
    /\ view[log.leaf].scrollHeight > 0
    /\ view[log.leaf].scrollTop = ClickUnclamped
    /\ RLt(R(0), view[log.leaf].scrollTop)

(***************************************************************************)
(* SpecPaint: what update() paints.  One attached leaf showing one         *)
(* document: the scenario and sample documents, a document longer than one *)
(* batch, and every one-line document made of at most MaxTokens tokens.    *)
(* The visibility flags come from the persisted settings.                  *)
(***************************************************************************)
PaintLeaves == {"L1"}

Tokens ==
    { <<"!", "[", "[">>,
      <<"]", "]">>,
      <<"#">>,
      <<Backtick, Backtick, Backtick>>,
      <<"|">>,
      <<" ">> }

MaxTokens == 3

RECURSIVE LinesOf(_)
LinesOf(n) ==
    IF n = 0 THEN { <<>> }
    ELSE LET shorter == LinesOf(n - 1)
         IN  shorter \cup { l \o tk : l \in shorter, tk \in Tokens }

\* 50 blank lines, then a header and a text line: two batches
DocLong == [i \in 1..(batchSize + 2) |->
              IF i <= batchSize THEN <<>> ELSE DocSmall[i - batchSize]]

PaintDocs == {DocScenario, DocSamples, DocLong} \cup { <<l>> : l \in LinesOf(MaxTokens) }

\* the scroller is taller than every document of PaintDocs at HostLineHeight a line
PaintGeoms == { <<1200, 200>> }

\* what saveData may have written before: nothing, or a record with the flags
PaintStored ==
    {NoData} \cup { [showHeaders |-> h, showCodeBlocks |-> c] : h, c \in BOOLEAN }

InitPaint ==
    /\ InitPlugin
    /\ stored \in PaintStored
    /\ open = PaintLeaves
    /\ activeLeaf \in open
    /\ InitHost(PaintLeaves, {"full", "noCm"}, {"notes/a.md"}, PaintDocs, PaintGeoms)

NextPaint ==
    \/ Onload
    \/ LayoutReady
    \/ DocumentScroll
    \/ EditorChange({DocScenario, DocSamples})

SpecPaint == InitPaint /\ [][NextPaint]_vars

(***************************************************************************)
(* What update() paints (checked under SpecPaint).                         *)
(***************************************************************************)
\* the last call of the last handler, when that call was update() on a canvas
LastIsUpdate ==
    /\ log.calls # <<>>
    /\ log.calls[Len(log.calls)].fn = "update"
    /\ log.calls[Len(log.calls)].hadCanvas

LastCall == log.calls[Len(log.calls)]

\* C8: update() is idempotent.  Right after an update() of a renderer, a second
\* update() with the same document, scroll position, settings and window leaves
\* the canvas as the first left it: the same dimensions, the same display, the
\* same context state and the same sequence of paint operations on the bitmap.
C8_UpdateIdempotent ==
    LastIsUpdate =>
      LET l == LastCall.leaf
          r == update(settings, view[l], cv[l])
      IN  /\ r.cv = cv[l]
          /\ r.resized = LastCall.resized
          /\ Len(r.ops) = LastCall.nOps
          /\ (r.resized => Drawn(r.ops) = cv[l].raster)

\* an update() that painted lines and the indicator, and left a context whose
\* line width and scale are not the defaults
C8_Witness ==
    /\ LastIsUpdate
    /\ LastCall.resized
    /\ LastCall.nOps > 3
    /\ cv[LastCall.leaf].ctx.lineWidth = 2
    /\ cv[LastCall.leaf].ctx.sx = DevicePixelRatio

\* the classes of the claim, in its order; header carries its level
\* (flags: whether header and code fence visibility are enabled)
ClassOf(content, headersOn, fencesOn) ==
    IF WikiMatch(content) # "none" /\ isImagePath(WikiMatch(content))
      THEN [cls |-> "image-embed", level |-> 0]
    ELSE IF WikiMatch(content) # "none"
      THEN [cls |-> "generic-embed", level |-> 0]
    ELSE IF headersOn /\ Len(content) > 0 /\ content[1] = "#"
      THEN [cls |-> "header", level |-> LeadingHashes(content, 1)]
    ELSE IF fencesOn /\ StartsWith(Trim(content), <<Backtick, Backtick, Backtick>>)
      THEN [cls |-> "code-fence", level |-> 0]
    ELSE IF \E i \in 1..Len(content) : content[i] = "|"
      THEN [cls |-> "table-row", level |-> 0]
    ELSE IF \E i \in 1..Len(content) : ~IsSpace(content[i])
      THEN [cls |-> "plain-text", level |-> 0]
    ELSE [cls |-> "blank", level |-> 0]

\* the last call was an update() that ran processLines over the document
PaintedLines == LastIsUpdate /\ LastCall.resized /\ LastCall.cap = "full"

\* the paints of line i on the bitmap of the leaf of the last call
PaintsOf(i) ==
    SelectSeq(cv[LastCall.leaf].raster, LAMBDA op : op.line = i)

\* the classes (with level) painted for line i
ClassesPainted(i) ==
    { [cls |-> PaintsOf(i)[k].cls, level |-> PaintsOf(i)[k].level] :
        k \in 1..Len(PaintsOf(i)) }

\* every line of the document got the paint of the class c(line) and of no other
\* class, and a blank line got none
PaintedBy(headersOn, fencesOn) ==
    \A i \in 1..Len(view[LastCall.leaf].doc) :
        LET c == ClassOf(view[LastCall.leaf].doc[i], headersOn, fencesOn)
        IN  ClassesPainted(i) = IF c.cls = "blank" THEN {} ELSE {c}

\* the examples of the claim, with every flag enabled
ExamplesClassified ==
    /\ ClassOf(DocSamples[1], TRUE, TRUE) = [cls |-> "image-embed", level |-> 0]
    /\ ClassOf(DocSamples[2], TRUE, TRUE) = [cls |-> "header", level |-> 2]
    /\ ClassOf(DocSamples[3], TRUE, TRUE) = [cls |-> "code-fence", level |-> 0]
    /\ ClassOf(DocSamples[4], TRUE, TRUE) = [cls |-> "table-row", level |-> 0]
    /\ CellCount(DocSamples[4], 1, FALSE) = 3
    /\ ClassOf(DocSamples[5], TRUE, TRUE) = [cls |-> "blank", level |-> 0]

\* C9 as stated: the class painted for a line is the first match, in the order of
\* the claim, decided from the line's own text only.
C9_ClassFromTextOnly ==
    PaintedLines => PaintedBy(TRUE, TRUE) /\ ExamplesClassified

\* C9, amended: every line is painted as exactly one class (a blank line as none),
\* the first match in the order image-embed, generic-embed, header(level),
\* code-fence, table-row, plain-text, blank, decided from the line's text and from
\* two settings: a line starting with "#" is a header only while showHeaders is
\* on, a line whose trimmed text starts with a fence is a code-fence only while
\* showCodeBlocks is on; with a flag off such a line falls through to table-row or
\* plain-text.  With both flags on the examples of the claim are classified as it
\* says, and "a | b | c" has three cells.
C9_ClassFromTextAndFlags ==
    PaintedLines =>
      /\ PaintedBy(settings.showHeaders, settings.showCodeBlocks)
      /\ ExamplesClassified
      /\ (view[LastCall.leaf].doc = DocSamples /\ settings = DEFAULT_SETTINGS
            => PaintedBy(TRUE, TRUE))

\* the sample document painted under the default settings
C9_Witness ==
    /\ PaintedLines
    /\ view[LastCall.leaf].doc = DocSamples
    /\ settings = DEFAULT_SETTINGS
    /\ Len(PaintsOf(6)) = 2

\* a line starting with "#" painted while showHeaders is off
C9_WitnessFlagOff ==
    /\ PaintedLines
    /\ ~settings.showHeaders
    /\ \E i \in 1..Len(view[LastCall.leaf].doc) :
         /\ StartsWith(view[LastCall.leaf].doc[i], <<"#">>)
         /\ ClassesPainted(i) \subseteq { [cls |-> "plain-text", level |-> 0],
                                          [cls |-> "table-row", level |-> 0] }
         /\ ClassesPainted(i) # {}

\* the last call was an update() of the scenario document under the default
\* configuration
ScenarioPainted ==
    /\ PaintedLines
    /\ view[LastCall.leaf].doc = DocScenario
    /\ settings = DEFAULT_SETTINGS

\* the lines of the scenario document with a paint of class cls
LinesPainted(cls) ==
    { i \in 1..Len(DocScenario) : \E c \in ClassesPainted(i) : c.cls = cls }

\* what the scenario paints apart from its plain-text lines: one header paint, of
\* level 1 and colour #FF0000, nothing for the blank line, two code-fence paints on
\* the delimiter lines, one paint a line
ScenarioRest ==
    /\ LinesPainted("header") = {1}
    /\ Len(PaintsOf(1)) = 1
    /\ PaintsOf(1)[1].level = 1
    /\ PaintsOf(1)[1].color = "#FF0000"
    /\ PaintsOf(2) = <<>>
    /\ LinesPainted("code-fence") = {4, 6}
    /\ \A i \in {3, 4, 5, 6} : Len(PaintsOf(i)) = 1
    /\ \A i \in 1..Len(DocScenario) :
         ClassesPainted(i) \subseteq
           { [cls |-> c, level |-> n] : c \in {"header", "code-fence", "plain-text"},
                                         n \in {0, 1} }

\* C10 as stated: one header paint, nothing for the blank line, one plain-text
\* paint and two code-fence paints.
C10_OnePlainTextPaint ==
    ScenarioPainted => ScenarioRest /\ Cardinality(LinesPainted("plain-text")) = 1

\* C10, amended: for ["# Title", "", "plain text line", "```", "code", "```"]
\* under the default configuration one update() performs one header paint (level
\* 1, #FF0000), nothing for the blank line, two code-fence paints (the delimiter
\* lines) and two plain-text paints: "plain text line" and the line "code"
\* between the fences.
C10_TwoPlainTextPaints ==
    ScenarioPainted => ScenarioRest /\ LinesPainted("plain-text") = {3, 5}

\* an edit made the document the scenario, and update() painted the background,
\* five line marks and the indicator's fill and stroke
C10_Witness ==
    /\ ScenarioPainted
    /\ log.op = "editorChange"
    /\ Len(cv[LastCall.leaf].raster) = 8

Visible(l) == cv[l].exists /\ cv[l].display # "none"

\* the last handler was "active-leaf-change" for a leaf whose renderer was bound
\* before it
ActivatedBound ==
    /\ log.op = "activeLeafChange"
    /\ log.calls # <<>>
    /\ log.calls[1].hadCanvas

\* the surface of leaf l is shown exactly when its file's minimap is enabled, as
\* far as the host supplies what update() needs to show it
ShownIffEnabled(l) ==
    hasContext(view[l]) =>
        Visible(l) = isMinimapEnabledForFile(settings, view[l].file)

\* C14: after an active-leaf-change to a view that is bound already,
\* syncVisibility() has run on its renderer and the surface is shown exactly when
\* showMinimap is set and the view's file is not in disabledFiles; the same holds
\* for every bound surface after the toggle command changed disabledFiles
C14_SyncAfterDocumentChange ==
    /\ ActivatedBound =>
          /\ CallsOf("syncVisibility", log.leaf) # <<>>
          /\ ShownIffEnabled(log.leaf)
    /\ (log.op = "toggle" /\ log.calls # <<>>) =>
          \A i \in 1..Len(minimaps) :
              /\ CallsOf("syncVisibility", minimaps[i]) # <<>>
              /\ ShownIffEnabled(minimaps[i])

(***************************************************************************)
(* Specification SpecMenu: one leaf with a full host; the toggle command,  *)
(* the settings tab and the context menu change the settings.              *)
(***************************************************************************)
MenuLeaves == {"L1"}

MenuGeoms == { <<400, 200>> }

MenuFields == {"minimapScaling", "minimapOpacity"}

MenuPicks == { Dec(1), Dec(10) }

MenuChanges == { <<"showMinimap", TRUE>>, <<"showMinimap", FALSE>> }

InitMenu ==
    /\ InitPlugin
    /\ stored = NoData
    /\ open = MenuLeaves
    /\ activeLeaf \in open
    /\ InitHost(MenuLeaves, {"full"}, {"notes/a.md"}, {DocSmall}, MenuGeoms)

NextMenu ==
    \/ Onload
    \/ LayoutReady
    \/ ToggleCommand(MaxPending)
    \/ SettingChange(MenuChanges, MaxPending)
    \/ MenuSelect(MenuFields, MenuPicks, MaxPending)
    \/ SaveDone
    \/ ContextMenu(MenuLeaves)
    \/ DocumentClick

SpecMenu == InitMenu /\ [][NextMenu]_vars

\* the last handler made a syncVisibility call: refreshMinimaps() ran in it
Broadcast == \E i \in 1..Len(log.calls) : log.calls[i].fn = "syncVisibility"

\* C11: the handler of a settings mutation (toggle command, settings control,
\* context-menu item) does not broadcast refreshMinimaps itself, since its
\* saveSettings() has not completed when it ends; the broadcast comes when the
\* save completes and then sees the settings the save wrote
C11_RefreshAfterPersist ==
    /\ log.op \in {"toggle", "settingChange", "menuSelect"} => ~Broadcast
    /\ (log.op = "saveDone" /\ Broadcast) => stored = Persist(settings)

\* C16: at most one context menu is in the document; after a right-click there is
\* exactly one, and after a click outside the menu there is none
C16_OneOverlay ==
    /\ overlay.menus <= 1
    /\ log.op = "contextmenu" => overlay.menus = 1
    /\ log.op = "click" => overlay.menus = 0

\* a right-click opened a menu while another was open, whose listener is left
C16_Witness ==
    /\ log.op = "contextmenu"
    /\ overlay.menus = 1
    /\ overlay.stale > 0

(***************************************************************************)
(* Specification SpecLoad: the plugin loads whatever data.json holds, and  *)
(* the toggle command, the settings tab and the context menu change it.    *)
(***************************************************************************)
LoadLeaves == {"L1"}

\* a JSON value that is not a number, where a number is expected: arithmetic on it
\* gives NaN, raw is the value
NotANumber(raw) == [n |-> 0, d |-> 0, raw |-> raw]

\* a JSON value that is not a list, where disabledFiles is expected
NotAList(raw) == [isArray |-> FALSE, items |-> <<>>, raw |-> raw]

StoredList(items) == [isArray |-> TRUE, items |-> items]

\* {}
EmptyData == [k \in {} |-> TRUE]

\* what data.json may hold: nothing, an unreadable file, records with keys missing,
\* values out of the sliders' ranges, values of another shape, a disabledFiles that
\* is no list, that names a file twice
LoadDatas ==
    { NoData, ReadFails, EmptyData,
      [ width |-> R(200), showHeaders |-> FALSE ],
      [ minimapOpacity |-> R(2) ],
      [ indicatorOpacity |-> Dec(-5) ],
      [ minimapScaling |-> Dec(15) ],
      [ width |-> R(-10) ],
      [ lineHeight |-> R(0) ],
      [ width |-> NotANumber("wide"), showHeaders |-> FALSE ],
      [ disabledFiles |-> NotAList("notes/a.md"), width |-> R(200) ],
      [ disabledFiles |-> StoredList(<<"notes/b.md">>) ],
      [ disabledFiles |-> StoredList(<<"notes/a.md", "notes/b.md", "notes/a.md">>) ] }

LoadChanges == { <<"width", R(300)>>, <<"minimapOpacity", Dec(10)>> }

LoadPicks == { Dec(1) }

InitLoad ==
    /\ InitPlugin
    /\ stored \in LoadDatas
    /\ open = LoadLeaves
    /\ activeLeaf \in open \cup {NoLeaf}
    /\ InitHost(LoadLeaves, {"full"}, {"notes/a.md"}, {DocSmall}, MenuGeoms)

NextLoad ==
    \/ Onload
    \/ LayoutReady
    \/ Onunload
    \/ ToggleCommand(MaxPending)
    \/ SettingChange(LoadChanges, MaxPending)
    \/ ContextMenu(LoadLeaves)
    \/ MenuSelect(MenuFields, LoadPicks, MaxPending)
    \/ DocumentClick
    \/ SaveDone

SpecLoad == InitLoad /\ [][NextLoad]_vars

\* the configuration fields that hold a number
NumericKeys ==
    { "width", "lineHeight", "minimapOpacity", "indicatorOpacity", "minElementWidth",
      "minElementHeight", "density", "minimapScaling", "lineSpacing", "textDensity" }

\* x is a JSON number
IsNumber(x) == DOMAIN x = {"n", "d"} /\ IsFinite(x)

InUnit(x) == IsNumber(x) /\ RLe(R(0), x) /\ RLe(x, R(1))

Positive(x) == IsNumber(x) /\ RLt(R(0), x)

\* C12: once loaded, the configuration's minimapOpacity, indicatorOpacity and
\* minimapScaling are within [0,1] and its width and lineHeight are positive
C12_SettingsInBounds ==
    loaded =>
        /\ InUnit(settings.minimapOpacity)
        /\ InUnit(settings.indicatorOpacity)
        /\ InUnit(settings.minimapScaling)
        /\ Positive(settings.width)
        /\ Positive(settings.lineHeight)

\* the field k loadSettings() is to give for the data read
Expected(data, k) ==
    IF "readFails" \in DOMAIN data \/ "nodata" \in DOMAIN data THEN DEFAULT_SETTINGS[k]
    ELSE IF k \notin DOMAIN data THEN DEFAULT_SETTINGS[k]
    ELSE IF k = "disabledFiles"
      THEN (IF data[k].isArray THEN data[k].items ELSE <<>>)
    ELSE IF k \in NumericKeys /\ ~IsNumber(data[k]) THEN DEFAULT_SETTINGS[k]
    ELSE data[k]

\* C13: after loadSettings() every configuration field is defined: a missing key
\* has its default, a disabledFiles that is no list is the empty list, a field of
\* another shape than its default's has its default, the other fields are the
\* stored ones, and a failing read gives the defaults
C13_LoadFallsBackToDefaults ==
    log.op = "onload" =>
        /\ DOMAIN DEFAULT_SETTINGS \subseteq DOMAIN settings
        /\ \A k \in DOMAIN DEFAULT_SETTINGS : settings[k] = Expected(stored, k)

\* C15: the toggle command with an active file inverts the file's membership in
\* disabledFiles and leaves every other file's membership alone; with no active
\* file it changes nothing
C15_ToggleInvertsMembership ==
    [][ log'.op = "toggle" =>
          IF pending' = pending THEN getActiveFile = NoFile /\ settings' = settings
          ELSE /\ getActiveFile # NoFile
               /\ \A p \in Paths :
                    IsDisabled(settings', p) =
                      IF p = getActiveFile THEN ~IsDisabled(settings, p)
                      ELSE IsDisabled(settings, p) ]_vars

(***************************************************************************)
(* Specification SpecPreload: documents with embedded images; the image    *)
(* loads of prerenderMinimap() settle one by one between other handlers.   *)
(***************************************************************************)
PreloadLeaves == {"L1"}

\* ["![[a.png]]", "text"]
DocOneImage ==
    << <<"!", "[", "[", "a", ".", "p", "n", "g", "]", "]">>,
       <<"t", "e", "x", "t">> >>

\* ["![x](a.png)", "![[b.png]] ![[a.png]]"]
DocImages ==
    << <<"!", "[", "x", "]", "(", "a", ".", "p", "n", "g", ")">>,
       <<"!", "[", "[", "b", ".", "p", "n", "g", "]", "]", " ",
         "!", "[", "[", "a", ".", "p", "n", "g", "]", "]">> >>

PreloadDocs == {DocSmall, DocSamples, DocOneImage, DocImages}

InitPreload ==
    /\ InitPlugin
    /\ stored = NoData
    /\ open = PreloadLeaves
    /\ activeLeaf \in open
    /\ InitHost(PreloadLeaves, {"full"}, {"notes/a.md"}, PreloadDocs, PaintGeoms)

NextPreload ==
    \/ Onload
    \/ LayoutReady
    \/ ImageSettled
    \/ Onunload
    \/ DocumentScroll
    \/ EditorChange(PreloadDocs)

SpecPreload == InitPreload /\ [][NextPreload]_vars

\* C17: the loads in flight are for distinct sources, none of them cached; when the
\* last load settles, by "load" or by "error", refreshMinimaps() runs; an update()
\* made while loads are in flight paints
C17_OneLoadPerSource ==
    /\ \A i, j \in 1..Len(preload.loading) :
          i # j => preload.loading[i] # preload.loading[j]
    /\ \A i \in 1..Len(preload.loading) : preload.loading[i] \notin preload.cache
    /\ (log.op \in {"imageLoad", "imageError"} /\ preload.loading = <<>>) =>
          (minimaps # <<>> => Broadcast)
    /\ (log.op = "documentScroll" /\ preload.loading # <<>> /\ minimaps # <<>>) =>
          (log.calls # <<>> /\ log.calls[1].nOps > 0)

(***************************************************************************)
(* Specification SpecRegistry: two leaves open and close, become active,   *)
(* and hold a MarkdownView or another view; the plugin loads and unloads.  *)
(***************************************************************************)
RegistryLeaves == {"L1", "L2"}

RegistryCaps == {"full", "notMarkdown"}

InitRegistry ==
    /\ InitPlugin
    /\ stored = NoData
    /\ open \in SUBSET RegistryLeaves
    /\ activeLeaf \in open \cup {NoLeaf}
    /\ InitHost(RegistryLeaves, RegistryCaps, {"notes/a.md"}, {DocSmall}, MenuGeoms)

NextRegistry ==
    \/ Onload
    \/ LayoutReady
    \/ Onunload
    \/ LayoutChange(RegistryLeaves)
    \/ ActiveLeafChange(RegistryLeaves \cup {NoLeaf})
    \/ CapChange(RegistryLeaves, RegistryCaps)

SpecRegistry == InitRegistry /\ [][NextRegistry]_vars

\* the number of entries of the registry for leaf l
Engines(l) == Len(SelectSeq(minimaps, LAMBDA x : x = l))

\* leaf l has one renderer in the registry, attached, and one surface
OneAttached(l) == Engines(l) = 1 /\ cv[l].exists /\ surfaces[l] = 1

\* leaf l has no renderer in the registry and no surface
NoEngine(l) == Engines(l) = 0 /\ ~cv[l].exists /\ surfaces[l] = 0

\* every leaf has one attached renderer or none; a leaf of the registry is open
RegistrySound ==
    \A l \in Leaves :
        /\ OneAttached(l) \/ NoEngine(l)
        /\ Engines(l) > 0 => l \in open

\* the open leaves that hold a MarkdownView
OpenMarkdown == { l \in open : isMarkdownView(view[l]) }

\* C19 as stated: after a layout-change or an active-leaf-change every open
\* markdown view has exactly one attached renderer in the registry, the registry
\* holds no closed view, a leaf outside the registry has no surface, and after
\* onunload the registry is empty
C19_RegistryCoversOpenViews ==
    /\ RegistrySound
    /\ log.op \in {"layoutChange", "activeLeafChange"} =>
          \A l \in OpenMarkdown : OneAttached(l)
    /\ log.op = "onunload" => \A l \in Leaves : NoEngine(l)

\* C19: every leaf has at most one renderer and one surface, a renderer of the
\* registry is attached and its leaf open, a leaf outside the registry has no
\* surface; after a layout-change every open markdown view has one attached
\* renderer, after an active-leaf-change the activated markdown view has one, and
\* after onunload the registry is empty
C19_RegistryAfterEvents ==
    /\ RegistrySound
    /\ log.op = "layoutChange" => \A l \in OpenMarkdown : OneAttached(l)
    /\ (log.op = "activeLeafChange" /\ log.leaf \in OpenMarkdown) => OneAttached(log.leaf)
    /\ log.op = "onunload" => \A l \in Leaves : NoEngine(l)

\* a layout-change left a renderer in the registry after another had been removed
C19_Witness ==
    /\ log.op = "layoutChange"
    /\ minimaps # <<>>
    /\ staleScroll > 0

\* after an active-leaf-change an open markdown view has no renderer
C19_WitnessUncovered ==
    /\ log.op = "activeLeafChange"
    /\ \E l \in OpenMarkdown : NoEngine(l)

(***************************************************************************)
(* Specification SpecEmpty: a view whose scroller has no height            *)
(* (scrollHeight 0, clientHeight 0) over the documents of SpecPaint.       *)
(***************************************************************************)
EmptyGeoms == { <<0, 0>> }

InitEmpty ==
    /\ InitPlugin
    /\ stored = NoData
    /\ open = PaintLeaves
    /\ activeLeaf \in open
    /\ InitHost(PaintLeaves, {"full"}, {"notes/a.md"}, PaintDocs, EmptyGeoms)

NextEmpty ==
    \/ Onload
    \/ LayoutReady
    \/ DocumentScroll
    \/ EditorChange({DocScenario, DocSamples})
    \/ EditorScroll(PaintLeaves)

SpecEmpty == InitEmpty /\ [][NextEmpty]_vars

\* the last call of the last handler was an update() that went on to paint, on a
\* view whose content height is 0
PaintedAtZeroHeight ==
    /\ log.calls # <<>>
    /\ LastCall.resized
    /\ hasCm(view[LastCall.leaf])
    /\ view[LastCall.leaf].scrollHeight = 0

\* C20: when the content height is 0, update() leaves the background fill on the
\* cleared bitmap and nothing else: no mark of a line and no indicator
C20_NoLineMarksAtZeroHeight ==
    PaintedAtZeroHeight =>
        /\ Len(cv[LastCall.leaf].raster) = 1
        /\ cv[LastCall.leaf].raster[1].cls = "background"

\* an update() at content height 0 of a document with lines: calls beyond the
\* background fill were made, with geometry that is not finite
C20_Witness ==
    /\ PaintedAtZeroHeight
    /\ Len(view[LastCall.leaf].doc) > 1
    /\ LastCall.nOps > 1

(***************************************************************************)
(* Specification SpecHeader: one-line documents that begin with 1 to       *)
(* MaxHashes "#", with every header colour set or the colour of level 2    *)
(* unset.                                                                  *)
(***************************************************************************)
MaxHashes == 7

\* "#...# T" with n "#"
HeaderLine(n) == [i \in 1..n |-> "#"] \o <<" ", "T">>

HeaderDocs == { <<HeaderLine(n)>> : n \in 1..MaxHashes } \cup {DocScenario}

HeaderStored ==
    { NoData, [ header2Color |-> "" ], [ showHeaders |-> FALSE ] }

InitHeader ==
    /\ InitPlugin
    /\ stored \in HeaderStored
    /\ open = PaintLeaves
    /\ activeLeaf \in open
    /\ InitHost(PaintLeaves, {"full"}, {"notes/a.md"}, HeaderDocs, PaintGeoms)

NextHeader ==
    \/ Onload
    \/ LayoutReady
    \/ DocumentScroll
    \/ EditorChange(HeaderDocs)
    \/ EditorScroll(PaintLeaves)

SpecHeader == InitHeader /\ [][NextHeader]_vars

\* the colour configured for header level n, "" when there is no such field
LevelColor(s, n) ==
    IF n = 1 THEN s.header1Color
    ELSE IF n = 2 THEN s.header2Color
    ELSE IF n = 3 THEN s.header3Color
    ELSE IF n = 4 THEN s.header4Color
    ELSE IF n = 5 THEN s.header5Color
    ELSE IF n = 6 THEN s.header6Color
    ELSE ""

\* C21: every header mark on the bitmap has a level in 1..6, which is the number
\* of leading "#" of its line, and the colour configured for that level, or the
\* fallback headerColor when that colour is unset
C21_HeaderLevelInRange ==
    PaintedLines =>
        \A k \in 1..Len(cv[LastCall.leaf].raster) :
            LET op == cv[LastCall.leaf].raster[k]
            IN  op.cls = "header" =>
                  /\ op.level \in 1..6
                  /\ op.level = LeadingHashes(view[LastCall.leaf].doc[op.line], 1)
                  /\ op.color = IF LevelColor(settings, op.level) = ""
                                  THEN settings.headerColor
                                  ELSE LevelColor(settings, op.level)

(***************************************************************************)
(* Specification SpecFlight: as SpecMenu, with the handlers that change    *)
(* the settings run while a save that an earlier one started is awaited.   *)
(***************************************************************************)
MaxInFlight == 2

NextFlight ==
    \/ Onload
    \/ LayoutReady
    \/ ToggleCommand(MaxInFlight)
    \/ SettingChange(MenuChanges, MaxInFlight)
    \/ MenuSelect(MenuFields, MenuPicks, MaxInFlight)
    \/ SaveDone
    \/ ContextMenu(MenuLeaves)
    \/ DocumentClick

SpecFlight == InitMenu /\ [][NextFlight]_vars

\* the saveSettings() calls that have not completed
SavesInFlight == Len(SelectSeq(pending, LAMBDA x : x \in {"refresh", "none"}))

\* C22: at most one save is in flight: no handler has changed the settings and
\* called saveSettings() while the save of an earlier change was not complete
C22_OneMutationInFlight == SavesInFlight <= 1

(***************************************************************************)
(* Specification SpecIndicator: the viewport indicator over scrollers of   *)
(* several heights and scroll offsets, with indicatorOpacity 0.2 or 0.     *)
(***************************************************************************)
IndicatorDocs == {DocSmall, DocScenario}

IndicatorStored ==
    { NoData, [ indicatorOpacity |-> R(0) ], [ minimapScaling |-> Dec(10) ] }

InitIndicator ==
    /\ InitPlugin
    /\ stored \in IndicatorStored
    /\ open = PaintLeaves
    /\ activeLeaf \in open
    /\ InitHost(PaintLeaves, {"full"}, {"notes/a.md"}, IndicatorDocs, ScrollGeoms)

NextIndicator ==
    \/ Onload
    \/ LayoutReady
    \/ EditorScroll(PaintLeaves)
    \/ MouseDown(PaintLeaves, ScrollClickStep, {"primary"})
    \/ MouseUp
    \/ EditorChange(IndicatorDocs)
    \/ Relayout(PaintLeaves, ScrollGeoms)

SpecIndicator == InitIndicator /\ [][NextIndicator]_vars

\* the indices of the indicator's marks on the bitmap of the leaf of the last call
IndicatorMarks ==
    { k \in 1..Len(cv[LastCall.leaf].raster) : cv[LastCall.leaf].raster[k].cls = "indicator" }

\* the indicator's marks are the last on the bitmap, and each is the rectangle
\* y = scrollTop * scale, height = viewportHeight * scale, which is within
\* [0, surfaceHeight] when 0 <= scrollTop <= totalContentHeight - viewportHeight
IndicatorPlaced ==
    LET v      == view[LastCall.leaf]
        raster == cv[LastCall.leaf].raster
        scale  == scaleOf(settings, v)
    IN  \A k \in IndicatorMarks :
            /\ \A j \in 1..Len(raster) : j \notin IndicatorMarks => j < k
            /\ raster[k].y = RMul(v.scrollTop, scale)
            /\ raster[k].h = RMul(R(v.clientHeight), scale)
            /\ (RLe(R(0), v.scrollTop) /\ RLe(v.scrollTop, R(v.scrollHeight - v.clientHeight)))
                 => /\ RLe(R(0), raster[k].y)
                    /\ RLe(RAdd(raster[k].y, raster[k].h), R(displayHeightOf(settings)))

\* C23 as stated: in every update() that paints the lines, the indicator is on the
\* bitmap exactly when indicatorOpacity > 0, after all line marks, as the
\* rectangle of IndicatorPlaced
C23_IndicatorIffOpacity ==
    PaintedLines =>
        /\ (IndicatorMarks # {}) = RLt(R(0), settings.indicatorOpacity)
        /\ IndicatorPlaced

\* C23: in every update() that paints the lines of a document of positive content
\* height, the indicator is on the bitmap exactly when indicatorOpacity > 0, after
\* all line marks, as the rectangle of IndicatorPlaced; at content height 0 its
\* rectangle is not finite and no indicator is on the bitmap
C23_IndicatorIffOpacityAndHeight ==
    PaintedLines =>
        /\ (IndicatorMarks # {}) =
             (RLt(R(0), settings.indicatorOpacity) /\ view[LastCall.leaf].scrollHeight > 0)
        /\ IndicatorPlaced

\* an update() painted line marks and then the indicator of a view scrolled down
C23_Witness ==
    /\ PaintedLines
    /\ IndicatorMarks # {}
    /\ Len(cv[LastCall.leaf].raster) > 3
    /\ RLt(R(0), view[LastCall.leaf].scrollTop)

(***************************************************************************)
(* Specification SpecRightClick: one leaf with a full host; pointer events *)
(* of the primary and of the secondary button on the canvas, the           *)
(* contextmenu event, and native scrolling.                                *)
(***************************************************************************)
RightClickGeoms == { <<400, 200>>, <<900, 300>> }

InitRightClick ==
    /\ InitPlugin
    /\ stored = NoData
    /\ open = MenuLeaves
    /\ activeLeaf \in open
    /\ InitHost(MenuLeaves, {"full"}, {"notes/a.md"}, {DocSmall}, RightClickGeoms)

NextRightClick ==
    \/ Onload
    \/ LayoutReady
    \/ DocumentScroll
    \/ EditorScroll(MenuLeaves)
    \/ MouseDown(MenuLeaves, ScrollClickStep, {"primary", "secondary"})
    \/ MouseUp
    \/ ContextMenu(MenuLeaves)
    \/ DocumentClick

SpecRightClick == InitRightClick /\ [][NextRightClick]_vars

\* C24: a right-click on the surface does not navigate: its pointer-down (the
\* mousedown of the secondary button) leaves the document's scroll position
\* unchanged and the drag flag false, and its contextmenu event changes neither
\* and creates the overlay
C24_RightClickDoesNotNavigate ==
    [][/\ log'.op = "mousedownSecondary" =>
            /\ view'[log'.leaf].scrollTop = view[log'.leaf].scrollTop
            /\ ~isDragging'
       /\ log'.op = "contextmenu" =>
            /\ view'[log'.leaf].scrollTop = view[log'.leaf].scrollTop
            /\ isDragging' = isDragging
            /\ overlay' # NoOverlay]_vars

(***************************************************************************)
(* The default configuration record (checked under SpecLoad).              *)
(***************************************************************************)
\* C25: the default configuration record is never mutated: whatever loadSettings()
\* read, and whatever toggle commands and settings changes followed, the values
\* of DEFAULT_SETTINGS are those it was defined with; its disabledFiles is empty
C25_DefaultsNeverMutated ==
    /\ copyDefaults = DEFAULT_SETTINGS
    /\ defaultFiles.items = <<>>

(***************************************************************************)
(* Specification SpecDrag: two leaves with full hosts, either made the     *)
(* active one; a drag starts on the canvas of DragLeaf only, the pointer   *)
(* moves over the canvas of OtherLeaf, and the editor of OtherLeaf scrolls.*)
(***************************************************************************)
DragLeaf == "L1"

OtherLeaf == "L2"

DragGeoms == { <<900, 300>> }

DragClickStep == 50

InitDrag ==
    /\ InitPlugin
    /\ stored = NoData
    /\ open = {DragLeaf, OtherLeaf}
    /\ activeLeaf \in open
    /\ InitHost(open, {"full"}, {"notes/a.md"}, {DocSmall}, DragGeoms)

NextDrag ==
    \/ Onload
    \/ LayoutReady
    \/ ActiveLeafChange({DragLeaf, OtherLeaf})
    \/ MouseDown({DragLeaf}, DragClickStep, {"primary"})
    \/ MouseMove({OtherLeaf}, DragClickStep)
    \/ MouseUp
    \/ EditorScroll({OtherLeaf})

SpecDrag == InitDrag /\ [][NextDrag]_vars

\* the last handler repainted the minimap of leaf l
Repainted(l) ==
    \E i \in 1..Len(log.calls) : log.calls[i].fn = "update" /\ log.calls[i].leaf = l

\* C26: a drag affects only the view it started on: while a drag begun on the
\* canvas of DragLeaf is in progress, a pointer movement over the canvas of
\* OtherLeaf leaves the scroll position of OtherLeaf as it is, and a scroll of
\* OtherLeaf's editor, whose renderer listens to it, repaints OtherLeaf's minimap
C26_DragStaysOnItsView ==
    [][isDragging =>
         /\ (log'.op = "mousemove" /\ log'.leaf = OtherLeaf)
               => view'[OtherLeaf].scrollTop = view[OtherLeaf].scrollTop
         /\ (log'.op = "editorScroll" /\ log'.leaf = OtherLeaf /\ hooked[OtherLeaf])
               => Repainted(OtherLeaf)']_vars

(***************************************************************************)
(* Specification SpecSliders: one leaf with a full host; the width,        *)
(* scaling and text density sliders are moved to the ends of their ranges, *)
(* and documents with every kind of line are painted.                      *)
(***************************************************************************)
\* the ends of the sliders' ranges: width 50..300, minimapScaling 0.1..1.0,
\* textDensity 0.5..3.0
SliderChanges ==
    { <<"width", R(50)>>, <<"width", R(300)>>,
      <<"minimapScaling", Dec(1)>>, <<"minimapScaling", Dec(10)>>,
      <<"textDensity", Dec(5)>>, <<"textDensity", Dec(30)>> }

SliderDocs == {DocSamples, DocScenario}

InitSliders ==
    /\ InitPlugin
    /\ stored = NoData
    /\ open = PaintLeaves
    /\ activeLeaf \in open
    /\ InitHost(PaintLeaves, {"full"}, {"notes/a.md"}, SliderDocs, PaintGeoms)

NextSliders ==
    \/ Onload
    \/ LayoutReady
    \/ SettingChange(SliderChanges, MaxPending)
    \/ SaveDone
    \/ DocumentScroll
    \/ EditorChange(SliderDocs)

SpecSliders == InitSliders /\ [][NextSliders]_vars

\* the settings are within the bounds of the settings tab's sliders
InSliderBounds(s) ==
    /\ RLe(R(50), s.width) /\ RLe(s.width, R(300))
    /\ RLe(Dec(1), s.minimapScaling) /\ RLe(s.minimapScaling, R(1))
    /\ RLe(Dec(5), s.textDensity) /\ RLe(s.textDensity, R(3))

\* the rectangles on the bitmap update() painted for lines
LineMarks ==
    { k \in 1..Len(cv[LastCall.leaf].raster) :
        cv[LastCall.leaf].raster[k].cls \notin {"background", "indicator"} }

\* C27: with settings within the sliders' bounds, every line-mark rectangle
\* update() painted has a width of 0 or more and lies between the left edge of
\* the surface and its width
C27_LineMarksWithinSurface ==
    (PaintedLines /\ InSliderBounds(settings)) =>
        \A k \in LineMarks :
            LET op == cv[LastCall.leaf].raster[k]
            IN  /\ RLe(R(0), op.w)
                /\ RLe(R(0), op.x)
                /\ RLe(RAdd(op.x, op.w), R(displayWidthOf(settings)))

=============================================================================
